---- MODULE Spec2Model ----
(***************************************************************************)
(* Ingestion path of the Ruuvi API proxy (src/src/proxy/index.py):         *)
(* lambda_handler validates a gateway batch, forwards it to Ruuvi Cloud    *)
(* through the process-wide circuit breaker and a retry loop, stores the   *)
(* readings locally and answers the gateway.  Requests are handled one at  *)
(* a time by a warm process; the breaker lives as long as the process.     *)
(***************************************************************************)
EXTENDS Integers, Sequences, FiniteSets, TLC

(***************************************************************************)
(* Bounds of the model.                                                    *)
(***************************************************************************)
\* the clock stops advancing here
MaxTime == 67
\* record_failure is not explored beyond this failure_count
MaxFailureCount == 6

(***************************************************************************)
(* Program constants.                                                      *)
(***************************************************************************)
failure_threshold == 5
recovery_timeout == 60
max_retries == 3
initial_retry_delay == 1
timestamp_window == 86400
rssi_min == -120
rssi_max == 0
default_retention_days == 90
seconds_per_day == 86400
\* self.last_failure_time = None
NoTime == -1

Absent == "absent"

(***************************************************************************)
(* JSON values that travel as responses.  A dict keeps the keys the code   *)
(* reads: result, data (the action of {"action": ...}) and error (the      *)
(* code of {"code": ..., "message": ...}); Absent marks a missing key.     *)
(* kind "other" is a JSON value that is not an object and is truthy (a     *)
(* non-empty string or list, a non-zero number), "null" one that is falsy, *)
(* and "none" is Python's None before any response exists.                 *)
(***************************************************************************)
Dict(result, data, error) ==
    [kind |-> "dict", result |-> result, data |-> data, error |-> error]

NoneResponse == [kind |-> "none", result |-> Absent, data |-> Absent, error |-> Absent]

\* Python truthiness of a response value
Truthy(r) ==
    CASE r.kind = "dict"  -> (r.result # Absent \/ r.data # Absent \/ r.error # Absent)
      [] r.kind = "other" -> TRUE
      [] OTHER            -> FALSE

\* shared/models.py format_ruuvi_cloud_response with RuuviCloudResponse.to_dict
format_ruuvi_cloud_response(success, action, error_code) ==
    IF success
    THEN Dict("success", action, Absent)
    ELSE Dict("error", Absent, IF error_code = Absent THEN "UNKNOWN_ERROR" ELSE error_code)

LocalSuccess == format_ruuvi_cloud_response(TRUE, "inserted", Absent)

\* bodies an HTTP 200 answer of the upstream can carry (response.json())
UpstreamBodies ==
    { Dict("success", "inserted", Absent),
      Dict("success", "updated", Absent),
      Dict("success", Absent, Absent),
      Dict("error", Absent, "ER_THROTTLED"),
      Dict(Absent, Absent, Absent),
      [kind |-> "other", result |-> Absent, data |-> Absent, error |-> Absent],
      [kind |-> "null", result |-> Absent, data |-> Absent, error |-> Absent] }

\* error codes RuuviCloudClient.send_sensor_data reports with success = False
ClientErrorCodes == {"TIMEOUT_ERROR", "HTTP_503", "HTTP_400", "JSON_PARSE_ERROR"}

\* what one pass through the retry loop's body can meet
ClientOutcomes ==
    [type : {"success"}, body : UpstreamBodies, code : {Absent}]
      \cup [type : {"failure"}, body : {NoneResponse}, code : ClientErrorCodes]
      \cup [type : {"raise"}, body : {NoneResponse}, code : {Absent}]

(***************************************************************************)
(* CircuitBreaker                                                          *)
(***************************************************************************)
CircuitBreaker ==
    [state |-> "CLOSED", failure_count |-> 0, last_failure_time |-> NoTime]

\* can_execute letting the trial through one second before the window ends
can_execute_early(b, t) ==
    IF b.state = "OPEN" /\ b.last_failure_time # NoTime
    THEN IF t - b.last_failure_time >= recovery_timeout - 1
         THEN [ret |-> TRUE, raised |-> FALSE, cb |-> [b EXCEPT !.state = "HALF_OPEN"]]
         ELSE [ret |-> FALSE, raised |-> FALSE, cb |-> b]
    ELSE [ret |-> b.state \in {"CLOSED", "HALF_OPEN"}, raised |-> b.state = "OPEN", cb |-> b]

\* can_execute closing the breaker itself once the window has passed
can_execute_closes(b, t) ==
    IF b.state = "OPEN" /\ b.last_failure_time # NoTime
    THEN IF t - b.last_failure_time >= recovery_timeout
         THEN [ret |-> TRUE, raised |-> FALSE, cb |-> [b EXCEPT !.state = "CLOSED"]]
         ELSE [ret |-> FALSE, raised |-> FALSE, cb |-> b]
    ELSE [ret |-> b.state \in {"CLOSED", "HALF_OPEN"}, raised |-> b.state = "OPEN", cb |-> b]

\* can_execute that never lets a trial through an OPEN breaker
can_execute_never_trial(b, t) ==
    IF b.state = "OPEN"
    THEN [ret |-> FALSE, raised |-> b.last_failure_time = NoTime, cb |-> b]
    ELSE [ret |-> TRUE, raised |-> FALSE, cb |-> b]

\* can_execute: the value returned (or raised: the subtraction on None) and
\* the breaker it leaves
can_execute(b, t) ==
    IF b.state = "CLOSED" THEN [ret |-> TRUE, raised |-> FALSE, cb |-> b]
    ELSE IF b.state = "OPEN" THEN
        IF b.last_failure_time = NoTime
        THEN [ret |-> FALSE, raised |-> TRUE, cb |-> b]
        ELSE IF t - b.last_failure_time >= recovery_timeout
        THEN [ret |-> TRUE, raised |-> FALSE, cb |-> [b EXCEPT !.state = "HALF_OPEN"]]
        ELSE [ret |-> FALSE, raised |-> FALSE, cb |-> b]
    ELSE IF b.state = "HALF_OPEN" THEN [ret |-> TRUE, raised |-> FALSE, cb |-> b]
    ELSE [ret |-> FALSE, raised |-> FALSE, cb |-> b]

\* record_success that resets the count and leaves the state
record_success_keeps_state(b) ==
    [state |-> b.state, failure_count |-> 0, last_failure_time |-> NoTime]

\* record_success that leaves the failure count alone
record_success_keeps_count(b) ==
    [state |-> "CLOSED", failure_count |-> b.failure_count, last_failure_time |-> NoTime]

record_success(b) ==
    [state |-> "CLOSED", failure_count |-> 0, last_failure_time |-> NoTime]

\* record_failure that does not note the time of the failure
record_failure_forgets_instant(b, t) ==
    LET n == b.failure_count + 1
    IN  [state |-> IF n >= failure_threshold THEN "OPEN"
                   ELSE IF b.state = "HALF_OPEN" THEN "OPEN"
                   ELSE b.state,
         failure_count |-> n,
         last_failure_time |-> b.last_failure_time]

\* record_failure opening only above the threshold
record_failure_above_threshold(b, t) ==
    LET n == b.failure_count + 1
    IN  [state |-> IF n > failure_threshold THEN "OPEN"
                   ELSE IF b.state = "HALF_OPEN" THEN "OPEN"
                   ELSE b.state,
         failure_count |-> n,
         last_failure_time |-> t]

record_failure(b, t) ==
    LET n == b.failure_count + 1
    IN  [state |-> IF n >= failure_threshold THEN "OPEN"
                   ELSE IF b.state = "HALF_OPEN" THEN "OPEN"
                   ELSE b.state,
         failure_count |-> n,
         last_failure_time |-> t]

\* an allow-list that also retries a client error
is_retryable_with_400(error_code) ==
    error_code \in {"TIMEOUT_ERROR", "CONNECTION_ERROR", "HTTP_400",
                    "HTTP_500", "HTTP_502", "HTTP_503", "HTTP_504"}

is_retryable(error_code) ==
    error_code \in {"TIMEOUT_ERROR", "CONNECTION_ERROR",
                    "HTTP_500", "HTTP_502", "HTTP_503", "HTTP_504"}


(***************************************************************************)
(* Gateway batches and their validation (shared/models.py).  Regular       *)
(* expressions and the base64 decoder are modelled by the sets of the      *)
(* strings of the model that they accept.                                  *)
(***************************************************************************)
GoodMac == "AA:BB:CC:DD:EE:FF"
OtherMac == "11:22:33:44:55:66"
BadMac == "AA:BB:CC"
Tag0 == "AABBCCDDEEF0"
Tag1 == "AABBCCDDEEF1"
Tag2 == "AABBCCDDEEF2"

\* ^([0-9A-Fa-f]{2}[:-]){5}([0-9A-Fa-f]{2})$
MacPattern == {GoodMac, OtherMac}
\* ^[0-9A-F]{12}$
DeviceIdPattern == {Tag0, Tag1, Tag2}
\* ^[A-Za-z0-9+/]*={0,2}$
Base64Pattern == {"", "dGVzdA==", "A"}
\* strings base64.b64decode(data, validate=True) accepts
Base64Decodable == {"", "dGVzdA=="}

GoodEntry == [rssi |-> -65, timestamp |-> 1, data |-> "dGVzdA=="]
\* passes the schema's pattern, fails the decoder (wrong padding)
UndecodableEntry == [rssi |-> -65, timestamp |-> 2, data |-> "A"]
BadRssiEntry == [rssi |-> 1, timestamp |-> 1, data |-> "dGVzdA=="]

\* the request bodies a gateway sends; age is how far the batch timestamp
\* lies ahead of the clock when the batch arrives
BatchTemplates ==
    { [gwmac |-> GoodMac, age |-> 0, tags |-> (Tag0 :> GoodEntry)],
      [gwmac |-> GoodMac, age |-> 0,
       tags |-> (Tag0 :> GoodEntry @@ Tag1 :> UndecodableEntry)],
      [gwmac |-> GoodMac, age |-> timestamp_window + 1, tags |-> (Tag0 :> GoodEntry)],
      [gwmac |-> BadMac, age |-> 0, tags |-> (Tag0 :> GoodEntry)],
      [gwmac |-> GoodMac, age |-> 0, tags |-> (Tag0 :> BadRssiEntry)],
      [gwmac |-> GoodMac, age |-> 0, tags |-> (Tag1 :> UndecodableEntry)] }

\* the "data" object of the request body sent at time t
gateway_batch(tpl, t) ==
    [gwmac |-> tpl.gwmac, timestamp |-> t + tpl.age, coordinates |-> "",
     tags |-> tpl.tags]

NoRequest ==
    [gwmac |-> "", timestamp |-> 0, coordinates |-> "",
     tags |-> [d \in {} |-> GoodEntry]]

\* jsonschema.validate(data, RUUVI_GATEWAY_REQUEST_SCHEMA)
schema_valid(data) ==
    /\ data.timestamp >= 0
    /\ data.gwmac \in MacPattern
    /\ DOMAIN data.tags # {}
    /\ \A d \in DOMAIN data.tags :
          /\ d \in DeviceIdPattern
          /\ data.tags[d].rssi >= rssi_min
          /\ data.tags[d].rssi <= rssi_max
          /\ data.tags[d].timestamp >= 0
          /\ data.tags[d].data \in Base64Pattern

\* RuuviSensorData.from_dict does not raise ValueError
sensor_data_valid(device_id, e) ==
    /\ device_id \in DeviceIdPattern
    /\ e.rssi >= rssi_min /\ e.rssi <= rssi_max
    /\ e.timestamp >= 0
    /\ (e.data = "" \/ e.data \in Base64Decodable)

\* RuuviGatewayRequest.get_sensor_data_list: the device ids it keeps
get_sensor_data_list(data) ==
    {d \in DOMAIN data.tags : sensor_data_valid(d, data.tags[d])}

validate_mac_address(data) == data.gwmac \in MacPattern

\* a timestamp check that accepts every batch
validate_timestamp_any(data, t) == data.timestamp = data.timestamp

validate_timestamp(data, t) ==
    (IF t >= data.timestamp THEN t - data.timestamp ELSE data.timestamp - t)
        <= timestamp_window

\* validate_ruuvi_request(...).is_valid
validate_ruuvi_request(data, t) ==
    /\ schema_valid(data)
    /\ validate_mac_address(data)
    /\ validate_timestamp(data, t)
    /\ get_sensor_data_list(data) # {}


(***************************************************************************)
(* Local storage (proxy/index.py store_sensor_data_locally and             *)
(* shared/data_access.py store_batch_sensor_data).                         *)
(***************************************************************************)
\* values the data_retention_days setting is read as
RetentionChoices == {30, default_retention_days}

\* what the store step can meet: obtaining the data access object or the
\* retention setting may raise; the batch write may go through, end in a
\* ClientError when the batch writer flushes, or raise another exception
StoreEnvs ==
    [access : {"fault"}, config : {"ok"}, ttl_days : {default_retention_days}, write : {"ok"}]
      \cup [access : {"ok"}, config : {"fault"}, ttl_days : {default_retention_days}, write : {"ok"}]
      \cup [access : {"ok"}, config : {"ok"}, ttl_days : RetentionChoices,
            write : {"ok", "client_error", "exception"}]

\* the condition of lines 338-340; evaluating it raises AttributeError when
\* the response is a truthy value without .get
attach_raises(ruuvi_cloud_response) ==
    Truthy(ruuvi_cloud_response) /\ ruuvi_cloud_response.kind # "dict"

attach_response(ruuvi_cloud_response) ==
    /\ Truthy(ruuvi_cloud_response)
    /\ ruuvi_cloud_response.result = "success"
    /\ ruuvi_cloud_response.data # Absent

\* the sensor_data_list built from the request's tags
sensor_data_list(req, ruuvi_cloud_response) ==
    { [device_id |-> d,
       gateway_id |-> req.gwmac,
       timestamp |-> req.tags[d].timestamp,
       measurements |-> [rssi |-> req.tags[d].rssi,
                         data |-> req.tags[d].data,
                         gateway_timestamp |-> req.timestamp,
                         coordinates |-> req.coordinates],
       ruuvi_cloud_response |-> IF attach_response(ruuvi_cloud_response)
                                THEN ruuvi_cloud_response
                                ELSE NoneResponse] : d \in DOMAIN req.tags }

\* the item store_batch_sensor_data puts for one entry of the list
table_item(data, ttl_days, t) ==
    [device_id |-> data.device_id,
     timestamp |-> data.timestamp,
     gateway_id |-> data.gateway_id,
     server_timestamp |-> t,
     measurements |-> data.measurements,
     ttl |-> t + ttl_days * seconds_per_day,
     ruuvi_cloud_response |-> data.ruuvi_cloud_response]

\* store_batch_sensor_data: every put_item is buffered and counted as a
\* success; the buffer is flushed when the batch writer is left.  A
\* ClientError of the flush zeroes the success count after the failure count
\* was raised by len(list) - successful_count.
store_batch_sensor_data(list, ttl_days, write, t) ==
    LET n == Cardinality(list)
    IN  CASE write = "ok" ->
               [raised |-> FALSE, successful_count |-> n, failed_count |-> 0,
                persisted |-> {table_item(data, ttl_days, t) : data \in list}]
          [] write = "client_error" ->
               [raised |-> FALSE, successful_count |-> 0, failed_count |-> n - n,
                persisted |-> {}]
          [] OTHER ->
               [raised |-> TRUE, successful_count |-> 0, failed_count |-> 0,
                persisted |-> {}]

NoStorage ==
    [setup |-> "none", called |-> FALSE, list |-> {}, persisted |-> {},
     counts |-> <<>>, result |-> FALSE]

\* store_sensor_data_locally: setup says whether the data access object and
\* the retention setting were obtained, called whether
\* store_batch_sensor_data was invoked, list what it was invoked with,
\* persisted what reached the table, counts the pair (successful_count,
\* failed_count) it returned (<<>> when it returned none), result the
\* function's return value
store_sensor_data_locally(req, ruuvi_cloud_response, env, t) ==
    IF env.access = "fault" \/ env.config = "fault"
    THEN [NoStorage EXCEPT !.setup = "fault"]
    ELSE IF DOMAIN req.tags # {} /\ attach_raises(ruuvi_cloud_response)
    THEN [NoStorage EXCEPT !.setup = "ok"]
    ELSE LET list == sensor_data_list(req, ruuvi_cloud_response)
             w == store_batch_sensor_data(list, env.ttl_days, env.write, t)
         IN  [setup |-> "ok", called |-> TRUE, list |-> list,
              persisted |-> w.persisted,
              counts |-> IF w.raised THEN <<>>
                         ELSE <<w.successful_count, w.failed_count>>,
              result |-> (~w.raised /\ w.successful_count > 0)]


(***************************************************************************)
(* The sensor data table (shared/data_access.py).                          *)
(***************************************************************************)
\* the batch writer's put_item carries no condition: an item that is written
\* replaces the item stored under its device_id and timestamp
batch_write(items, persisted) ==
    { i \in items : \A p \in persisted :
                       ~(p.device_id = i.device_id /\ p.timestamp = i.timestamp) }
      \cup persisted

\* the triples handle_ruuvi_cloud_forwarding returns
ForwardingResults ==
    { [success |-> TRUE, response |-> LocalSuccess, was_forwarded |-> FALSE] }
      \cup { [success |-> FALSE,
              response |-> format_ruuvi_cloud_response(FALSE, Absent,
                                                       "CIRCUIT_BREAKER_OPEN"),
              was_forwarded |-> TRUE] }
      \cup [success : {TRUE}, response : UpstreamBodies, was_forwarded : {TRUE}]
      \cup { [success |-> FALSE,
              response |-> format_ruuvi_cloud_response(FALSE, Absent, c),
              was_forwarded |-> TRUE] : c \in ClientErrorCodes }


(***************************************************************************)
(* ConfigurationManager (shared/config_manager.py).                        *)
(* A Python value is a record: type is the value's class, n its number     *)
(* (True is 1 and False is 0, as in Python) and s its text.                *)
(***************************************************************************)
PyNone == [type |-> "NoneType", n |-> 0, s |-> ""]
PyBool(b) == [type |-> "bool", n |-> IF b THEN 1 ELSE 0, s |-> ""]
PyInt(n) == [type |-> "int", n |-> n, s |-> ""]
PyStr(s) == [type |-> "str", n |-> 0, s |-> s]
\* a float and a list are told apart by their literals
PyFloat(s) == [type |-> "float", n |-> 0, s |-> s]
PyList(s) == [type |-> "list", n |-> 0, s |-> s]

\* ConfigurationManager.cache_ttl_seconds
cache_ttl_seconds == 300

\* how far the clock runs while the ConfigurationManager is exercised
MaxConfigTime == 300

\* intervals by which the clock moves between two calls
ConfigTickChoices == {cache_ttl_seconds - 1, cache_ttl_seconds}

\* the keys get_config and set_config are called with: one with a validator
\* and a default, and site_name, which has neither
ConfigKeys == {"data_retention_days", "site_name"}

\* self._defaults.get(key)
_defaults(key) ==
    CASE key = "forwarding_enabled"   -> PyBool(TRUE)
      [] key = "data_retention_days"  -> PyInt(90)
      [] key = "ruuvi_cloud_endpoint" -> PyStr("https://network.ruuvi.com/record")
      [] key = "ruuvi_cloud_timeout"  -> PyInt(25)
      [] key = "max_batch_size"       -> PyInt(25)
      [] key = "cache_ttl_seconds"    -> PyInt(300)
      [] OTHER                        -> PyNone

\* isinstance(v, int): bool is a subclass of int
isinstance_int(v) == v.type \in {"int", "bool"}

\* v.startswith(('http://', 'https://')) over the endpoint texts in use
startswith_http(text) ==
    text \in {"https://network.ruuvi.com", "http://[",
              "https://network.ruuvi.com/record"}

\* a validator that only asks for an integer
_validate_config_any_int(key, value) ==
    CASE key = "forwarding_enabled"   -> value.type = "bool"
      [] key = "data_retention_days"  -> isinstance_int(value)
      [] OTHER                        -> TRUE

\* _validate_config
_validate_config(key, value) ==
    CASE key = "forwarding_enabled"   -> value.type = "bool"
      [] key = "data_retention_days"  ->
             isinstance_int(value) /\ 1 <= value.n /\ value.n <= 3650
      [] key = "ruuvi_cloud_endpoint" -> value.type = "str" /\ startswith_http(value.s)
      [] key = "ruuvi_cloud_timeout"  ->
             (isinstance_int(value) \/ value.type = "float")
               /\ 1 <= value.n /\ value.n <= 300
      [] key = "max_batch_size"       ->
             isinstance_int(value) /\ 1 <= value.n /\ value.n <= 100
      [] key = "cache_ttl_seconds"    ->
             isinstance_int(value) /\ 1 <= value.n /\ value.n <= 3600
      [] OTHER                        -> TRUE

\* the integers that occur as configuration values, and str() of each
ConfigInts == {-1, 0, 1, 7, 30, 3650, 5000}

int_text(n) ==
    CASE n = -1   -> "-1"
      [] n = 0    -> "0"
      [] n = 1    -> "1"
      [] n = 7    -> "7"
      [] n = 30   -> "30"
      [] n = 3650 -> "3650"
      [] n = 5000 -> "5000"

\* the values set_config is called with, by key
ConfigValues(key) ==
    CASE key = "data_retention_days" ->
             {PyInt(n) : n \in {-1, 0, 30, 5000}} \cup {PyBool(TRUE), PyStr("30")}
      [] OTHER -> {PyStr("30"), PyStr("garden"), PyStr("null"), PyStr("inf"),
                   PyStr("1.5"), PyList("[1]")}

\* the defaults get_config is called with
ConfigDefaults == {PyNone, PyInt(7)}

\* _serialize_value: json.dumps of a list, str(value) of anything else
_serialize_value(value) ==
    CASE value.type = "bool"  -> IF value.n = 1 THEN "True" ELSE "False"
      [] value.type = "int"   -> int_text(value.n)
      [] value.type = "str"   -> value.s
      [] value.type = "float" -> value.s
      [] value.type = "list"  -> value.s
      [] OTHER                -> "None"

\* serialized_value.lower() over the texts in use
lower(text) ==
    CASE text = "True"  -> "true"
      [] text = "False" -> "false"
      [] OTHER          -> text

\* the texts in use that int() reads, that float() reads and int() does
\* not, and that json.loads reads as a list
is_int_text(text) == \E n \in ConfigInts : int_text(n) = text
parse_int(text) == CHOOSE n \in ConfigInts : int_text(n) = text
FloatTexts == {"1.5", "inf"}
\* of these, the ones that are JSON numbers ("inf" is none)
JsonFloatTexts == {"1.5"}
\* '.' in text, over the texts in use
has_dot(text) ==
    text \in {"1.5", "https://network.ruuvi.com", "https://network.ruuvi.com/record"}
ListTexts == {"[1]"}

\* json.loads(text): a number, a list or one of true, false and null;
\* raised says the text is no JSON
json_loads(text) ==
    IF is_int_text(text) THEN [raised |-> FALSE, value |-> PyInt(parse_int(text))]
    ELSE IF text \in JsonFloatTexts THEN [raised |-> FALSE, value |-> PyFloat(text)]
    ELSE IF text \in ListTexts THEN [raised |-> FALSE, value |-> PyList(text)]
    ELSE IF text \in {"true", "false"}
    THEN [raised |-> FALSE, value |-> PyBool(text = "true")]
    ELSE IF text = "null" THEN [raised |-> FALSE, value |-> PyNone]
    ELSE [raised |-> TRUE, value |-> PyNone]

\* _deserialize_value: what json.loads rejects is tried as a boolean
\* whatever its case; then a text without "." goes to int() and a text with
\* one to float(), and the ValueError of either gives the text itself
_deserialize_value(serialized_value) ==
    LET j == json_loads(serialized_value)
    IN  IF ~j.raised
        THEN j.value
        ELSE IF lower(serialized_value) \in {"true", "false"}
        THEN PyBool(lower(serialized_value) = "true")
        ELSE IF ~has_dot(serialized_value)
        THEN IF is_int_text(serialized_value)
             THEN PyInt(parse_int(serialized_value))
             ELSE PyStr(serialized_value)
        ELSE IF serialized_value \in FloatTexts
        THEN PyFloat(serialized_value)
        ELSE PyStr(serialized_value)

NoEntry == [value |-> PyNone, timestamp |-> NoTime]
NoItem == [config_value |-> Absent, last_updated |-> NoTime, updated_by |-> Absent]

\* a cache that serves an entry whose age has just reached the TTL
_is_cached_and_valid_at_ttl(cache, key, t) ==
    /\ cache[key] # NoEntry
    /\ t - cache[key].timestamp <= cache_ttl_seconds

\* _is_cached_and_valid
_is_cached_and_valid(cache, key, t) ==
    /\ cache[key] # NoEntry
    /\ t - cache[key].timestamp < cache_ttl_seconds

\* _update_cache
_update_cache(cache, key, value, t) ==
    [cache EXCEPT ![key] = [value |-> value, timestamp |-> t]]

\* lines 69 and 80: the caller's default, else the built-in one
default_value(key, default) ==
    IF default # PyNone THEN default ELSE _defaults(key)

\* how a call of the configuration table ends: it returns, it raises
\* botocore's ClientError (the service answered with an error), or it raises
\* another exception (the service was not reached: EndpointConnectionError
\* and the timeouts are BotoCoreError, no ClientError)
TableFaults == {"none", "client_error", "exception"}

\* a get_config that keeps the fallback of a faulted read in the cache
get_config_caches_fallback(cache, items, key, default, fault, t) ==
    IF _is_cached_and_valid(cache, key, t)
    THEN [raised |-> FALSE, value |-> cache[key].value, cache |-> cache,
          read |-> FALSE]
    ELSE IF fault = "exception"
    THEN [raised |-> TRUE, value |-> PyNone, cache |-> cache, read |-> TRUE]
    ELSE IF fault = "client_error"
    THEN [raised |-> FALSE, value |-> default_value(key, default),
          cache |-> _update_cache(cache, key, default_value(key, default), t),
          read |-> TRUE]
    ELSE IF items[key] # NoItem
    THEN LET value == _deserialize_value(items[key].config_value)
         IN  [raised |-> FALSE, value |-> value,
              cache |-> _update_cache(cache, key, value, t), read |-> TRUE]
    ELSE [raised |-> FALSE, value |-> default_value(key, default), cache |-> cache,
          read |-> TRUE]

\* get_config at time t: raised says an exception left it, value is what it
\* returns, cache the cache it leaves, read whether table.get_item was
\* called; fault is how that call ends
get_config(cache, items, key, default, fault, t) ==
    IF _is_cached_and_valid(cache, key, t)
    THEN [raised |-> FALSE, value |-> cache[key].value, cache |-> cache,
          read |-> FALSE]
    ELSE IF fault = "exception"
    THEN [raised |-> TRUE, value |-> PyNone, cache |-> cache, read |-> TRUE]
    ELSE IF fault = "client_error"
    THEN [raised |-> FALSE, value |-> default_value(key, default), cache |-> cache,
          read |-> TRUE]
    ELSE IF items[key] # NoItem
    THEN LET value == _deserialize_value(items[key].config_value)
         IN  [raised |-> FALSE, value |-> value,
              cache |-> _update_cache(cache, key, value, t), read |-> TRUE]
    ELSE [raised |-> FALSE, value |-> default_value(key, default), cache |-> cache,
          read |-> TRUE]

\* a set_config that leaves the cache to the next read
set_config_without_cache(cache, items, key, value, updated_by, fault, t) ==
    IF ~_validate_config(key, value)
    THEN [raised |-> FALSE, ret |-> FALSE, cache |-> cache, items |-> items,
          wrote |-> FALSE]
    ELSE IF fault # "none"
    THEN [raised |-> fault = "exception", ret |-> FALSE, cache |-> cache,
          items |-> items, wrote |-> TRUE]
    ELSE [raised |-> FALSE, ret |-> TRUE,
          cache |-> cache,
          items |-> [items EXCEPT ![key] =
                        [config_value |-> _serialize_value(value),
                         last_updated |-> t, updated_by |-> updated_by]],
          wrote |-> TRUE]

\* set_config at time t: ret is what it returns, cache and items the cache
\* and the table it leaves, wrote whether table.put_item was called, raised
\* whether an exception left it; fault is how that call ends
set_config(cache, items, key, value, updated_by, fault, t) ==
    IF ~_validate_config(key, value)
    THEN [raised |-> FALSE, ret |-> FALSE, cache |-> cache, items |-> items,
          wrote |-> FALSE]
    ELSE IF fault # "none"
    THEN [raised |-> fault = "exception", ret |-> FALSE, cache |-> cache,
          items |-> items, wrote |-> TRUE]
    ELSE [raised |-> FALSE, ret |-> TRUE,
          cache |-> _update_cache(cache, key, value, t),
          items |-> [items EXCEPT ![key] =
                        [config_value |-> _serialize_value(value),
                         last_updated |-> t, updated_by |-> updated_by]],
          wrote |-> TRUE]

NoCall ==
    [op |-> "none", key |-> Absent, value |-> PyNone, result |-> PyNone,
     read |-> FALSE, wrote |-> FALSE, at |-> NoTime, fault |-> "none",
     raised |-> FALSE]


(***************************************************************************)
(* The configuration Lambda (config/index.py).                             *)
(***************************************************************************)
\* values of the ADMIN_API_KEY environment variable: unset, or a key
AdminKey == "correct-admin-key"
AdminKeys == {Absent, AdminKey}

\* what the x-api-key header of a request carries: no such header, an empty
\* value, the administrator's key, another key
ApiKeys == {Absent, "", AdminKey, "invalid-key"}

\* request bodies of a PUT: text that is no JSON, a JSON list, and JSON
\* objects of keys and values
ConfigBodies ==
    { [kind |-> "invalid", items |-> <<>>],
      [kind |-> "list", items |-> <<>>],
      [kind |-> "dict", items |-> <<>>],
      [kind |-> "dict", items |-> <<[key |-> "data_retention_days", value |-> PyInt(30)]>>],
      [kind |-> "dict", items |-> <<[key |-> "data_retention_days", value |-> PyInt(0)]>>],
      [kind |-> "dict", items |-> <<[key |-> "site_name", value |-> PyStr("garden")]>>],
      [kind |-> "dict", items |-> <<[key |-> "site_name", value |-> PyStr("garden")],
                                    [key |-> "data_retention_days", value |-> PyInt(30)]>>] }

\* the API Gateway events the configuration Lambda is invoked with
ConfigEvents ==
    [httpMethod : {"GET", "PUT", "DELETE"}, api_key : ApiKeys, body : ConfigBodies]

\* self.updatable_keys
updatable_keys ==
    {"forwarding_enabled", "data_retention_days", "ruuvi_cloud_endpoint",
     "ruuvi_cloud_timeout", "max_batch_size", "cache_ttl_seconds"}

\* an authentication that lets every key in when none is configured
_validate_admin_auth_unconfigured(event, admin_api_key) ==
    /\ event.api_key \notin {Absent, ""}
    /\ (admin_api_key \notin {Absent, ""} => event.api_key = admin_api_key)

\* _validate_admin_auth
_validate_admin_auth(event, admin_api_key) ==
    /\ event.api_key \notin {Absent, ""}
    /\ admin_api_key \notin {Absent, ""}
    /\ event.api_key = admin_api_key

\* _get_user_identifier of a request without Cognito claims and without a
\* source address
_get_user_identifier(event) ==
    IF event.api_key = AdminKey THEN "api-key:dmin-key@unknown" ELSE "api-key:unknown"

NoConfigResponse ==
    [event |-> [httpMethod |-> Absent, api_key |-> Absent,
                body |-> [kind |-> "invalid", items |-> <<>>]],
     statusCode |-> 0, updated |-> {}, set_calls |-> 0, scanned |-> FALSE]

\* the loop of _handle_update_config over the body's items: after is the
\* cache and the table the set_config calls leave, updated the keys whose
\* call returned True, set_calls the calls made, raised whether one of them
\* let an exception through
RECURSIVE update_items(_, _, _, _, _, _)
update_items(items, cache, tbl, user_id, fault, t) ==
    IF items = <<>>
    THEN [cache |-> cache, items |-> tbl, updated |-> {}, set_calls |-> 0,
          raised |-> FALSE]
    ELSE LET head == Head(items)
         IN  IF head.key \notin updatable_keys
             THEN update_items(Tail(items), cache, tbl, user_id, fault, t)
             ELSE LET r == set_config(cache, tbl, head.key, head.value, user_id,
                                      fault, t)
                      rest == update_items(Tail(items), r.cache, r.items, user_id,
                                           fault, t)
                  IN  IF r.raised
                      THEN [cache |-> r.cache, items |-> r.items, updated |-> {},
                            set_calls |-> 1, raised |-> TRUE]
                      ELSE [rest EXCEPT
                               !.updated = IF r.ret THEN @ \cup {head.key} ELSE @,
                               !.set_calls = @ + 1]

\* handle_request of a handler whose ADMIN_API_KEY is admin_api_key, at time
\* t; fault is how the calls of the configuration table end.  cache and
\* items are the cache and the table it leaves.
handle_request(event, admin_api_key, cache, tbl, fault, t) ==
    LET base == [NoConfigResponse EXCEPT !.event = event]
        same(status) == [cache |-> cache, items |-> tbl,
                         response |-> [base EXCEPT !.statusCode = status]]
    IN  IF ~_validate_admin_auth(event, admin_api_key)
        THEN same(401)
        ELSE IF event.httpMethod = "PUT"
        THEN IF event.body.kind \in {"invalid", "list"}
             THEN same(400)
             ELSE LET u == update_items(event.body.items, cache, tbl,
                                        _get_user_identifier(event), fault, t)
                  IN  IF u.raised
                      THEN [cache |-> u.cache, items |-> u.items,
                            response |-> [base EXCEPT !.statusCode = 500,
                                                      !.set_calls = u.set_calls]]
                      ELSE [cache |-> [k \in ConfigKeys |-> NoEntry],
                            items |-> u.items,
                            response |->
                               [base EXCEPT
                                  !.statusCode = IF u.updated # {} THEN 200 ELSE 400,
                                  !.updated = u.updated,
                                  !.set_calls = u.set_calls]]
        ELSE IF event.httpMethod = "GET"
        THEN [cache |-> cache, items |-> tbl,
              response |-> [base EXCEPT
                               !.statusCode = IF fault = "exception" THEN 500 ELSE 200,
                               !.scanned = TRUE]]
        ELSE same(405)


(***************************************************************************)
(* Reading the sensor data table (shared/data_access.py).  A Python list   *)
(* is a sequence; an Optional value is a sequence of no or one element.    *)
(***************************************************************************)
\* the primary key of an item; NoKey stands for None
NoKey == [device_id |-> "", timestamp |-> NoTime]
key_of(item) == [device_id |-> item.device_id, timestamp |-> item.timestamp]

\* bool(x) of an Optional[int]: None and 0 are false
truthy_int(x) == x # NoTime /\ x # 0

RECURSIVE ascending(_)
\* the items of one partition in the order of their sort key
ascending(S) ==
    IF S = {} THEN <<>>
    ELSE LET first == CHOOSE i \in S : \A j \in S : i.timestamp <= j.timestamp
         IN  <<first>> \o ascending(S \ {first})

reversed(seq) == [k \in 1..Len(seq) |-> seq[Len(seq) + 1 - k]]

head_of(seq, n) == SubSeq(seq, 1, IF n < Len(seq) THEN n ELSE Len(seq))

\* DynamoDB refuses an ExclusiveStartKey of another partition or outside
\* the key condition (ValidationException, a ClientError)
start_key_valid(device_id, lo, hi, key) ==
    /\ key.device_id = device_id
    /\ (lo = NoTime \/ key.timestamp >= lo)
    /\ (hi = NoTime \/ key.timestamp <= hi)

\* a query that resumes at the start key instead of after it
query_resumes_at_key(items, device_id, lo, hi, ScanIndexForward, Limit, ExclusiveStartKey) ==
    LET matching == {i \in items : /\ i.device_id = device_id
                                   /\ (lo = NoTime \/ i.timestamp >= lo)
                                   /\ (hi = NoTime \/ i.timestamp <= hi)}
        rest == IF ExclusiveStartKey = NoKey THEN matching
                ELSE {i \in matching :
                        IF ScanIndexForward
                        THEN i.timestamp >= ExclusiveStartKey.timestamp
                        ELSE i.timestamp <= ExclusiveStartKey.timestamp}
        ordered == IF ScanIndexForward THEN ascending(rest)
                   ELSE reversed(ascending(rest))
        page == head_of(ordered, Limit)
    IN  [Items |-> page,
         LastEvaluatedKey |-> IF Len(page) = Limit THEN key_of(page[Len(page)])
                              ELSE NoKey]

\* table.query: the items of partition device_id whose sort key lies in
\* [lo, hi] (NoTime is no bound), in the order asked for, after the start
\* key, at most Limit of them; LastEvaluatedKey is in the response when the
\* query stopped at Limit
query(items, device_id, lo, hi, ScanIndexForward, Limit, ExclusiveStartKey) ==
    LET matching == {i \in items : /\ i.device_id = device_id
                                   /\ (lo = NoTime \/ i.timestamp >= lo)
                                   /\ (hi = NoTime \/ i.timestamp <= hi)}
        rest == IF ExclusiveStartKey = NoKey THEN matching
                ELSE {i \in matching :
                        IF ScanIndexForward
                        THEN i.timestamp > ExclusiveStartKey.timestamp
                        ELSE i.timestamp < ExclusiveStartKey.timestamp}
        ordered == IF ScanIndexForward THEN ascending(rest)
                   ELSE reversed(ascending(rest))
        page == head_of(ordered, Limit)
    IN  [Items |-> page,
         LastEvaluatedKey |-> IF Len(page) = Limit THEN key_of(page[Len(page)])
                              ELSE NoKey]

_format_sensor_data(item) ==
    [device_id |-> item.device_id,
     gateway_id |-> item.gateway_id,
     timestamp |-> item.timestamp,
     server_timestamp |-> item.server_timestamp,
     measurements |-> item.measurements,
     ruuvi_cloud_response |-> item.ruuvi_cloud_response]

format_all(seq) == [k \in 1..Len(seq) |-> _format_sensor_data(seq[k])]

\* a get_current_data that asks for the oldest item
get_current_data_oldest(items, device_id, fault) ==
    IF fault = "exception" THEN [raised |-> TRUE, value |-> <<>>]
    ELSE IF fault = "client_error" THEN [raised |-> FALSE, value |-> <<>>]
    ELSE [raised |-> FALSE,
          value |-> format_all(query(items, device_id, NoTime, NoTime, TRUE, 1,
                                     NoKey).Items)]

\* get_current_data: raised says that an exception left the function, value
\* is the returned reading (<<>> is None)
get_current_data(items, device_id, fault) ==
    IF fault = "exception" THEN [raised |-> TRUE, value |-> <<>>]
    ELSE IF fault = "client_error" THEN [raised |-> FALSE, value |-> <<>>]
    ELSE [raised |-> FALSE,
          value |-> format_all(query(items, device_id, NoTime, NoTime, FALSE, 1,
                                     NoKey).Items)]

\* get_historical_data: last_evaluated_key is NoKey when the result has no
\* such entry
get_historical_data(items, device_id, start_time, end_time, limit, last_evaluated_key, fault) ==
    LET bounds == CASE truthy_int(start_time) /\ truthy_int(end_time) ->
                         [lo |-> start_time, hi |-> end_time]
                    [] truthy_int(start_time) -> [lo |-> start_time, hi |-> NoTime]
                    [] truthy_int(end_time) -> [lo |-> NoTime, hi |-> end_time]
                    [] OTHER -> [lo |-> NoTime, hi |-> NoTime]
        failed == [raised |-> FALSE, items |-> <<>>, count |-> 0,
                   last_evaluated_key |-> NoKey]
    IN  IF fault = "exception" THEN [failed EXCEPT !.raised = TRUE]
        ELSE IF fault = "client_error" THEN failed
        ELSE IF /\ last_evaluated_key # NoKey
                /\ ~start_key_valid(device_id, bounds.lo, bounds.hi,
                                    last_evaluated_key)
        THEN failed
        ELSE LET response == query(items, device_id, bounds.lo, bounds.hi, TRUE,
                                   limit, last_evaluated_key)
             IN  [raised |-> FALSE,
                  items |-> format_all(response.Items),
                  count |-> Len(response.Items),
                  last_evaluated_key |-> response.LastEvaluatedKey]

\* the device ids of the model and the orders in which a scan can meet the
\* partitions; inside a partition a scan follows the sort key
DeviceIds == {Tag0, Tag1, Tag2}
ScanOrders ==
    {o \in [1..3 -> DeviceIds] : \A a, b \in 1..3 : a # b => o[a] # o[b]}

RECURSIVE scan_sequence(_, _, _)
scan_sequence(items, order, k) ==
    IF k > Len(order) THEN <<>>
    ELSE ascending({i \in items : i.device_id = order[k]})
           \o scan_sequence(items, order, k + 1)

\* the dictionary entry get_all_devices keeps for an item
device_entry(item) ==
    [device_id |-> item.device_id,
     gateway_id |-> item.gateway_id,
     last_seen |-> item.timestamp,
     last_seen_server |-> item.server_timestamp]

\* a reduction that keeps the entry of the first item met for a device
keep_first_seen(devices, item) ==
    IF \E k \in 1..Len(devices) : devices[k].device_id = item.device_id
    THEN devices
    ELSE Append(devices, device_entry(item))

\* one pass of the loop body over an item; devices is the dict in the order
\* of insertion
keep_most_recent(devices, item) ==
    IF \E k \in 1..Len(devices) : devices[k].device_id = item.device_id
    THEN [k \in 1..Len(devices) |->
            IF /\ devices[k].device_id = item.device_id
               /\ item.timestamp > devices[k].last_seen
            THEN device_entry(item)
            ELSE devices[k]]
    ELSE Append(devices, device_entry(item))

RECURSIVE reduce_page(_, _, _)
reduce_page(devices, page, k) ==
    IF k > Len(page) THEN devices
    ELSE reduce_page(keep_most_recent(devices, page[k]), page, k + 1)

RECURSIVE scan_pages(_, _, _, _)
\* the first scan and the while loop: a page holds the next limit items of
\* the scan, and its response has a LastEvaluatedKey when it is full
scan_pages(all, pos, devices, limit) ==
    LET last == IF pos + limit < Len(all) THEN pos + limit ELSE Len(all)
        page == SubSeq(all, pos + 1, last)
        seen == reduce_page(devices, page, 1)
    IN  IF Len(page) = limit /\ Len(seen) < limit
        THEN scan_pages(all, pos + limit, seen, limit)
        ELSE seen

RECURSIVE sort_last_seen_reverse(_)
\* list.sort(key=last_seen, reverse=True): stable
sort_last_seen_reverse(seq) ==
    IF seq = <<>> THEN <<>>
    ELSE LET k == CHOOSE a \in 1..Len(seq) :
                     /\ \A b \in 1..Len(seq) : seq[b].last_seen <= seq[a].last_seen
                     /\ \A b \in 1..(a - 1) : seq[b].last_seen < seq[a].last_seen
         IN  <<seq[k]>> \o sort_last_seen_reverse(
                 [j \in 1..(Len(seq) - 1) |-> IF j < k THEN seq[j] ELSE seq[j + 1]])

\* get_all_devices(limit) when the scan meets the partitions in order
get_all_devices(items, limit, order, fault) ==
    IF fault = "exception" THEN [raised |-> TRUE, devices |-> <<>>]
    ELSE IF fault = "client_error" THEN [raised |-> FALSE, devices |-> <<>>]
    ELSE [raised |-> FALSE,
          devices |-> sort_last_seen_reverse(
                          scan_pages(scan_sequence(items, order, 1), 0, <<>>, limit))]


(***************************************************************************)
(* The retrieval Lambda (retrieve/index.py).  An event carries its path,   *)
(* the device_id path parameter, the credentials and the query parameters; *)
(* NoTime is a query parameter that is not there.                          *)
(***************************************************************************)
default_limit == 100
max_limit == 1000
default_scan_limit == 1000

\* a next_token is text; the model keeps what the text encodes
NoToken == [kind |-> "none", key |-> NoKey]
\* text that is no base64 encoding of a JSON document
GarbageToken == [kind |-> "garbage", key |-> NoKey]

\* base64.b64encode(json.dumps(last_evaluated_key))
encode_next_token(last_evaluated_key) ==
    [kind |-> "base64_json", key |-> last_evaluated_key]

\* json.loads(base64.b64decode(next_token).decode('utf-8'))
decode_next_token(next_token) ==
    [raised |-> next_token.kind # "base64_json", value |-> next_token.key]

\* authentication that looks at the API key header only
validate_authentication_key_only(event) ==
    event.api_key \notin {Absent, ""}

validate_authentication(event) ==
    \/ event.api_key \notin {Absent, ""}
    \/ event.claims
    \/ event.userArn

\* validate_query_parameters: raised is the ValueError
validate_query_parameters(query_params) ==
    LET validated == [raised |-> FALSE,
                      start_time |-> query_params.start_time,
                      end_time |-> query_params.end_time,
                      limit |-> IF query_params.limit # NoTime
                                THEN query_params.limit ELSE default_limit,
                      last_evaluated_key |->
                          IF query_params.next_token # NoToken
                          THEN decode_next_token(query_params.next_token).value
                          ELSE NoKey]
    IN  IF \/ /\ query_params.start_time # NoTime
              /\ query_params.end_time # NoTime
              /\ query_params.start_time >= query_params.end_time
           \/ /\ query_params.limit # NoTime
              /\ (query_params.limit < 1 \/ query_params.limit > max_limit)
           \/ /\ query_params.next_token # NoToken
              /\ decode_next_token(query_params.next_token).raised
        THEN [validated EXCEPT !.raised = TRUE]
        ELSE validated

\* what lambda_handler answered and did: code is the error code of the
\* body, validated whether validate_query_parameters was called, queried
\* whether the table was queried or scanned, data the reading of a
\* current-value answer, items, count, next_token and has_more the
\* historical answer, devices the device listing
NoRetrieveResponse ==
    [statusCode |-> 0, code |-> Absent, validated |-> FALSE, queried |-> FALSE,
     data |-> <<>>, items |-> <<>>, count |-> 0, next_token |-> NoToken,
     has_more |-> FALSE, devices |-> <<>>]

retrieve_error(status_code, code, validated, queried) ==
    [NoRetrieveResponse EXCEPT !.statusCode = status_code, !.code = code,
                               !.validated = validated, !.queried = queried]

\* handle_current_data_request inside lambda_handler's try blocks
handle_current_data_request(device_id, items, fault) ==
    LET current_data == get_current_data(items, device_id, fault)
    IN  IF current_data.raised
        THEN retrieve_error(500, "INTERNAL_ERROR", TRUE, TRUE)
        ELSE IF current_data.value = <<>>
        THEN retrieve_error(404, "NOT_FOUND", TRUE, TRUE)
        ELSE [NoRetrieveResponse EXCEPT !.statusCode = 200, !.validated = TRUE,
                                        !.queried = TRUE,
                                        !.data = current_data.value]

\* handle_historical_data_request inside lambda_handler's try blocks
handle_historical_data_request(device_id, validated_params, items, fault) ==
    LET result == get_historical_data(items, device_id,
                      validated_params.start_time, validated_params.end_time,
                      validated_params.limit,
                      validated_params.last_evaluated_key, fault)
    IN  IF result.raised
        THEN retrieve_error(500, "INTERNAL_ERROR", TRUE, TRUE)
        ELSE [NoRetrieveResponse EXCEPT
                !.statusCode = 200, !.validated = TRUE, !.queried = TRUE,
                !.items = result.items, !.count = result.count,
                !.next_token = IF result.last_evaluated_key # NoKey
                               THEN encode_next_token(result.last_evaluated_key)
                               ELSE NoToken,
                !.has_more = (result.last_evaluated_key # NoKey)]

\* handle_device_listing_request inside lambda_handler's try blocks
handle_device_listing_request(items, order, fault) ==
    LET devices_info == get_all_devices(items, default_scan_limit, order, fault)
    IN  IF devices_info.raised
        THEN retrieve_error(500, "INTERNAL_ERROR", TRUE, TRUE)
        ELSE [NoRetrieveResponse EXCEPT !.statusCode = 200, !.validated = TRUE,
                                        !.queried = TRUE,
                                        !.devices = devices_info.devices]

\* lambda_handler of the retrieval Lambda on the table items
lambda_handler(event, items, order, fault) ==
    IF event.httpMethod # "GET"
    THEN retrieve_error(400, "VALIDATION_ERROR", FALSE, FALSE)
    ELSE IF ~validate_authentication(event)
    THEN retrieve_error(401, "AUTHENTICATION_REQUIRED", FALSE, FALSE)
    ELSE LET validated_params == validate_query_parameters(event)
         IN  IF validated_params.raised
             THEN retrieve_error(400, "VALIDATION_ERROR", TRUE, FALSE)
             ELSE CASE event.path = "/current/" /\ event.device_id # Absent ->
                         handle_current_data_request(event.device_id, items, fault)
                    [] event.path = "/history/" /\ event.device_id # Absent ->
                         handle_historical_data_request(event.device_id,
                             validated_params, items, fault)
                    [] event.path = "/devices" ->
                         handle_device_listing_request(items, order, fault)
                    [] OTHER ->
                         retrieve_error(400, "VALIDATION_ERROR", TRUE, FALSE)

\* the requests of the model.  Credentials vary on a current-value request;
\* paths, devices and query parameters vary under an API key.
LocalApiKey == "local-api-key"

NoRetrieveEvent ==
    [httpMethod |-> "", path |-> "", device_id |-> Absent, api_key |-> Absent,
     claims |-> FALSE, userArn |-> FALSE, start_time |-> NoTime,
     end_time |-> NoTime, limit |-> NoTime, next_token |-> NoToken]

AuthenticationEvents ==
    [httpMethod : {"GET"}, path : {"/current/"}, device_id : {Tag0},
     api_key : {Absent, "", LocalApiKey}, claims : BOOLEAN, userArn : BOOLEAN,
     start_time : {NoTime}, end_time : {NoTime}, limit : {NoTime},
     next_token : {NoToken}]
      \cup [httpMethod : {"GET", "POST"}, path : {"/current/"}, device_id : {Tag0},
            api_key : {Absent, LocalApiKey}, claims : {FALSE}, userArn : {FALSE},
            start_time : {NoTime}, end_time : {NoTime}, limit : {0},
            next_token : {NoToken}]

\* token is the next_token of the last answer
QueryEvents(token) ==
    [httpMethod : {"GET"}, path : {"/current/"},
     device_id : {Tag0, Tag1, Tag2, Absent},
     api_key : {LocalApiKey}, claims : {FALSE}, userArn : {FALSE},
     start_time : {NoTime}, end_time : {NoTime}, limit : {NoTime},
     next_token : {NoToken}]
      \cup [httpMethod : {"GET"}, path : {"/history/"}, device_id : {Tag0},
            api_key : {LocalApiKey}, claims : {FALSE}, userArn : {FALSE},
            start_time : {NoTime, 2}, end_time : {NoTime, 0, 3},
            limit : {1, 2}, next_token : {NoToken, token}]
      \cup [httpMethod : {"GET"}, path : {"/history/"}, device_id : {Tag1},
            api_key : {LocalApiKey}, claims : {FALSE}, userArn : {FALSE},
            start_time : {0}, end_time : {NoTime, 2}, limit : {NoTime},
            next_token : {NoToken, token, GarbageToken}]
      \cup [httpMethod : {"GET"}, path : {"/devices", "/gateways"},
            device_id : {Absent},
            api_key : {LocalApiKey}, claims : {FALSE}, userArn : {FALSE},
            start_time : {NoTime}, end_time : {NoTime}, limit : {NoTime},
            next_token : {NoToken}]

\* the last call of the retrieval Lambda or of get_all_devices (op): its
\* inputs, whether an exception left it (raised), its answer, and for a
\* historical answer the items of the pages of its cursor chain so far
\* (pages) and whether the chain began without a cursor and met no fault
\* (clean).  A write that changes the table forgets the call but for the
\* cursor it returned.
NoRetrieval ==
    [op |-> "none", event |-> NoRetrieveEvent, limit |-> 0, order |-> <<>>,
     fault |-> "none", raised |-> FALSE, response |-> NoRetrieveResponse,
     pages |-> <<>>, clean |-> FALSE]


(***************************************************************************)
(* State.                                                                  *)
(*   now        the clock, time.time() in seconds                          *)
(*   ruuvi_cloud_circuit_breaker   the module-level CircuitBreaker         *)
(*   pc         where lambda_handler stands                                *)
(*   request    the validated RuuviGatewayRequest                          *)
(*   attempt, retry_delay   the retry loop's variables                     *)
(*   ruuvi_cloud_endpoint   the endpoint setting read for the request      *)
(*   forwarding the triple handle_ruuvi_cloud_forwarding returned          *)
(*   storage    what store_sensor_data_locally did and returned            *)
(*   response   the API Gateway response of lambda_handler                 *)
(*   audit      what the request in hand did to the upstream and to the    *)
(*              breaker (history, read by no action): config is how the    *)
(*              read of the forwarding settings went ("fault", "disabled", *)
(*              "enabled"), last_error the error code of the last pass     *)
(*              in which the client reported a failure, breaker is what    *)
(*              can_execute answered ("permitted" from CLOSED, "trial"     *)
(*              when it moved OPEN to HALF_OPEN, "rejected", "raised"),    *)
(*              attempts the passes through the retry loop's body (each    *)
(*              builds a client and calls send_sensor_data),               *)
(*              upstream_calls the passes in which the batch was posted    *)
(*              and send_sensor_data returned, upstream_ok and             *)
(*              upstream_body its success answer, recorded_* the           *)
(*              record_success and record_failure calls, slept the         *)
(*              time.sleep arguments                                       *)
(*   received   the batch template the request in hand arrived with        *)
(*              (history)                                                  *)
(*   failure_streak   record_failure calls since the breaker was built or  *)
(*              record_success was last called (history)                   *)
(*   failed_at  the clock at the last record_failure call since the last   *)
(*              record_success call (history)                              *)
(*   table      the items of the sensor data table (DynamoDB), one per     *)
(*              (device_id, timestamp)                                     *)
(*   config_table   the items of the configuration table, by config_key    *)
(*   _cache     ConfigurationManager._cache, by key                        *)
(*   returned   the last call of get_config or set_config: its arguments,  *)
(*              its return value, whether it read or wrote the             *)
(*              configuration table, and the clock when it was made        *)
(*              (history)                                                  *)
(*   config_handler   the configuration Lambda's ConfigurationHandler       *)
(*   config_response  the last request to the configuration Lambda, its    *)
(*              response, and what serving it did to the configuration     *)
(*              table (history)                                            *)
(*   retrieved  the last call of the retrieval Lambda or of                *)
(*              get_all_devices on the table as it stands, with its        *)
(*              answer (history)                                           *)
(***************************************************************************)
VARIABLES now, ruuvi_cloud_circuit_breaker, pc, request, attempt, retry_delay,
          ruuvi_cloud_endpoint, forwarding, storage, response, audit,
          received, failure_streak, failed_at,
          table, config_table, _cache, returned,
          config_handler, config_response, retrieved, threads

\* what one lambda_handler invocation and the module-level breaker hold
proxy_vars == <<ruuvi_cloud_circuit_breaker, pc, request, attempt, retry_delay,
                ruuvi_cloud_endpoint, forwarding, storage, response, audit,
                received, failure_streak, failed_at>>

\* the sensor data table
store_vars == <<table>>

\* the configuration table, the ConfigurationManager's cache and the last
\* answer of the ConfigurationManager
config_vars == <<config_table, _cache, returned>>

\* the configuration Lambda's handler object and its last response
admin_vars == <<config_handler, config_response>>

\* the last call of the retrieval Lambda or of get_all_devices
retrieve_vars == <<retrieved>>

\* where each of the threads of one process stands in its call
thread_vars == <<threads>>

\* the threads of one process that handle requests at the same time
Threads == {1, 2}

\* a thread with no request in hand: the statement it is at, and the
\* values it holds on its stack
NoThread == [pc |-> "idle", local |-> <<>>]

vars == <<now, proxy_vars, store_vars, config_vars, admin_vars, retrieve_vars,
          thread_vars>>

NoBatch == [gwmac |-> "", age |-> 0, tags |-> [d \in {} |-> GoodEntry]]
NoForwarding == [success |-> FALSE, response |-> NoneResponse, was_forwarded |-> FALSE]
NoAnswer == [statusCode |-> 0, body |-> NoneResponse]
NoAudit ==
    [config |-> "unread", breaker |-> "unasked", attempts |-> 0, upstream_calls |-> 0,
     upstream_ok |-> FALSE, upstream_body |-> NoneResponse, last_error |-> Absent,
     recorded_successes |-> 0, recorded_failures |-> 0, slept |-> <<>>]

\* intervals by which the clock moves between two requests
TickChoices == {recovery_timeout - 1, recovery_timeout}

\* values of the ruuvi_cloud_endpoint setting: the default, and one that
\* set_config's validator accepts (it starts with http://) and that
\* urllib.parse.urljoin rejects with ValueError("Invalid IPv6 URL")
DefaultEndpoint == "https://network.ruuvi.com"
UnjoinableEndpoint == "http://["
Endpoints == {DefaultEndpoint, UnjoinableEndpoint}
NoEndpoint == ""

\* send_sensor_data raises before its try block: urljoin(self.base_url, endpoint)
send_sensor_data_raises(base_url) == base_url = UnjoinableEndpoint

\* what reading the forwarding settings gives: an exception that
\* get_config_manager or get_config lets through, or the values read
ConfigOutcomes ==
    [fault : {TRUE}, forwarding_enabled : {TRUE}, ruuvi_cloud_endpoint : {DefaultEndpoint}]
      \cup [fault : {FALSE}, forwarding_enabled : {FALSE},
            ruuvi_cloud_endpoint : {DefaultEndpoint}]
      \cup [fault : {FALSE}, forwarding_enabled : {TRUE}, ruuvi_cloud_endpoint : Endpoints]

\* no request in hand, a new breaker
InitProxy ==
    /\ now = 0
    /\ ruuvi_cloud_circuit_breaker = CircuitBreaker
    /\ pc = "idle"
    /\ request = NoRequest
    /\ attempt = 0
    /\ retry_delay = initial_retry_delay
    /\ ruuvi_cloud_endpoint = NoEndpoint
    /\ forwarding = NoForwarding
    /\ storage = NoStorage
    /\ response = NoAnswer
    /\ audit = NoAudit
    /\ received = NoBatch
    /\ failure_streak = 0
    /\ failed_at = NoTime

\* empty tables, an empty cache
InitTables ==
    /\ table = {}
    /\ config_table = [k \in ConfigKeys |-> NoItem]
    /\ _cache = [k \in ConfigKeys |-> NoEntry]
    /\ returned = NoCall
    /\ config_response = NoConfigResponse
    /\ retrieved = NoRetrieval
    /\ threads = [t \in Threads |-> NoThread]

Init ==
    /\ InitProxy
    /\ InitTables
    /\ config_handler = [admin_api_key |-> Absent]

\* create_api_gateway_response
create_api_gateway_response(status_code, body) ==
    [statusCode |-> status_code, body |-> body]

\* handle_validation_error
handle_validation_error ==
    create_api_gateway_response(400,
        format_ruuvi_cloud_response(FALSE, Absent, "VALIDATION_ERROR"))

\* time passes while no request is in hand
Tick(d) ==
    /\ pc = "idle"
    /\ UNCHANGED <<store_vars, config_vars, admin_vars, retrieve_vars, thread_vars>>
    /\ now + d <= MaxTime
    /\ now' = now + d
    /\ UNCHANGED <<ruuvi_cloud_circuit_breaker, pc, request, attempt, retry_delay,
                   ruuvi_cloud_endpoint, forwarding, storage, response, audit,
                   received, failure_streak, failed_at>>

\* lambda_handler, lines 624-656: parse and validate the batch
Receive(tpl) ==
    /\ pc = "idle"
    /\ UNCHANGED <<store_vars, config_vars, admin_vars, retrieve_vars, thread_vars>>
    /\ LET data == gateway_batch(tpl, now)
       IN  IF validate_ruuvi_request(data, now)
           THEN /\ pc' = "forwarding"
                /\ request' = data
                /\ response' = NoAnswer
           ELSE /\ pc' = "done"
                /\ request' = NoRequest
                /\ response' = handle_validation_error
    /\ received' = tpl
    /\ UNCHANGED <<now, ruuvi_cloud_circuit_breaker, attempt, retry_delay,
                   ruuvi_cloud_endpoint, forwarding, storage, audit,
                   failure_streak, failed_at>>

\* what handle_ruuvi_cloud_forwarding returns without entering the retry loop
\* when can_execute says no
circuit_breaker_open_unforwarded ==
    [success |-> FALSE,
     response |-> format_ruuvi_cloud_response(FALSE, Absent, "CIRCUIT_BREAKER_OPEN"),
     was_forwarded |-> FALSE]

\* lines 476-480: what handle_ruuvi_cloud_forwarding returns when can_execute
\* says no
circuit_breaker_open_result ==
    [success |-> FALSE,
     response |-> format_ruuvi_cloud_response(FALSE, Absent, "CIRCUIT_BREAKER_OPEN"),
     was_forwarded |-> TRUE]

\* handle_ruuvi_cloud_forwarding, lines 417-484: read the settings, ask the breaker
ForwardingStart(cfg) ==
    /\ pc = "forwarding"
    /\ UNCHANGED <<store_vars, config_vars, admin_vars, retrieve_vars, thread_vars>>
    /\ LET c == can_execute(ruuvi_cloud_circuit_breaker, now)
       IN  IF cfg.fault \/ ~cfg.forwarding_enabled
           THEN /\ forwarding' = [success |-> TRUE, response |-> LocalSuccess,
                                  was_forwarded |-> FALSE]
                /\ pc' = "forwarded"
                /\ audit' = [audit EXCEPT !.config =
                                 IF cfg.fault THEN "fault" ELSE "disabled"]
                /\ UNCHANGED <<ruuvi_cloud_circuit_breaker, attempt, retry_delay,
                               ruuvi_cloud_endpoint>>
           ELSE IF c.raised
           THEN /\ forwarding' = [success |-> TRUE, response |-> LocalSuccess,
                                  was_forwarded |-> FALSE]
                /\ pc' = "forwarded"
                /\ audit' = [audit EXCEPT !.config = "enabled", !.breaker = "raised"]
                /\ UNCHANGED <<ruuvi_cloud_circuit_breaker, attempt, retry_delay,
                               ruuvi_cloud_endpoint>>
           ELSE IF ~c.ret
           THEN /\ forwarding' = circuit_breaker_open_result
                /\ pc' = "forwarded"
                /\ ruuvi_cloud_circuit_breaker' = c.cb
                /\ audit' = [audit EXCEPT !.config = "enabled", !.breaker = "rejected"]
                /\ UNCHANGED <<attempt, retry_delay, ruuvi_cloud_endpoint>>
           ELSE /\ pc' = "attempt"
                /\ attempt' = 0
                /\ retry_delay' = initial_retry_delay
                /\ ruuvi_cloud_endpoint' = cfg.ruuvi_cloud_endpoint
                /\ ruuvi_cloud_circuit_breaker' = c.cb
                /\ audit' = [audit EXCEPT !.config = "enabled", !.breaker =
                                 IF c.cb.state = ruuvi_cloud_circuit_breaker.state
                                 THEN "permitted" ELSE "trial"]
                /\ UNCHANGED forwarding
    /\ UNCHANGED <<now, request, storage, response, received, failure_streak, failed_at>>

\* the loop ends: handle_ruuvi_cloud_forwarding returns
ForwardingReturns(success, resp, b, a, streak, at) ==
    /\ forwarding' = [success |-> success, response |-> resp, was_forwarded |-> TRUE]
    /\ pc' = "forwarded"
    /\ ruuvi_cloud_circuit_breaker' = b
    /\ audit' = a
    /\ failure_streak' = streak
    /\ failed_at' = at
    /\ ruuvi_cloud_endpoint' = NoEndpoint
    /\ UNCHANGED <<now, attempt, retry_delay>>

\* time.sleep(retry_delay); retry_delay *= 2; next pass of the loop
SleepAndRetry(b, a, streak, at) ==
    /\ now + retry_delay <= MaxTime
    /\ now' = now + retry_delay
    /\ retry_delay' = retry_delay * 2
    /\ attempt' = attempt + 1
    /\ ruuvi_cloud_circuit_breaker' = b
    /\ audit' = [a EXCEPT !.slept = Append(@, retry_delay)]
    /\ failure_streak' = streak
    /\ failed_at' = at
    /\ UNCHANGED <<pc, forwarding, ruuvi_cloud_endpoint>>

\* a loop that gives up one pass early
last_attempt_early(n) == n = max_retries - 1

\* a loop that goes on for one pass more
last_attempt_late(n) == n = max_retries + 1

\* the test that ends the loop on its last pass (lines 526 and 580)
last_attempt(n) == n = max_retries

\* one pass of the retry loop, lines 486-588: the client answers success
\* (line 501), answers failure (line 521) or an exception reaches line 560.
\* send_sensor_data catches every exception of the post itself, so a pass
\* raises exactly when the client cannot work with the endpoint that was
\* read once for the request: every pass of such a request raises.
Attempt(o) ==
    /\ pc = "attempt"
    /\ UNCHANGED <<store_vars, config_vars, admin_vars, retrieve_vars, thread_vars>>
    /\ (o.type = "raise") = send_sensor_data_raises(ruuvi_cloud_endpoint)
    /\ LET b == ruuvi_cloud_circuit_breaker
           passed == [audit EXCEPT !.attempts = @ + 1]
           called == [passed EXCEPT !.upstream_calls = @ + 1]
           failed(a) == [a EXCEPT !.recorded_failures = @ + 1]
           answered == [called EXCEPT !.last_error = o.code]
       IN  CASE o.type = "success" ->
                  ForwardingReturns(TRUE, o.body, record_success(b),
                      [called EXCEPT !.upstream_ok = TRUE,
                                     !.upstream_body = o.body,
                                     !.recorded_successes = @ + 1],
                      0, NoTime)
             [] o.type = "failure" ->
                  IF ~is_retryable(o.code) \/ last_attempt(attempt)
                  THEN /\ b.failure_count < MaxFailureCount
                       /\ ForwardingReturns(FALSE,
                              format_ruuvi_cloud_response(FALSE, Absent, o.code),
                              record_failure(b, now), failed(answered),
                              failure_streak + 1, now)
                  ELSE SleepAndRetry(b, answered, failure_streak, failed_at)
             [] OTHER ->
                  /\ b.failure_count < MaxFailureCount
                  /\ IF last_attempt(attempt)
                     THEN ForwardingReturns(FALSE,
                              format_ruuvi_cloud_response(FALSE, Absent,
                                                          "FORWARDING_EXCEPTION"),
                              record_failure(b, now), failed(passed),
                              failure_streak + 1, now)
                     ELSE SleepAndRetry(record_failure(b, now), failed(passed),
                                        failure_streak + 1, now)
    /\ UNCHANGED <<request, storage, response, received>>

\* handing the forwarding response to the store whenever success is reported
ruuvi_cloud_response_if_success(fwd) ==
    IF fwd.success THEN fwd.response ELSE NoneResponse

\* handing whatever forwarding returned to the store
ruuvi_cloud_response_always(fwd) == fwd.response

\* lines 666-668: the response handed to the store
ruuvi_cloud_response_for_storage(fwd) ==
    IF fwd.was_forwarded /\ fwd.success THEN fwd.response ELSE NoneResponse

\* answering with the forwarding response whenever forwarding was tried
response_body_if_forwarded(fwd) ==
    IF fwd.was_forwarded
    THEN fwd.response
    ELSE format_ruuvi_cloud_response(TRUE, "inserted", Absent)

\* lines 679-684: the body of the answer
response_body(fwd) ==
    IF fwd.success
    THEN fwd.response
    ELSE format_ruuvi_cloud_response(TRUE, "inserted", Absent)

\* an answer that reports a failed store as an internal error
lambda_response_checks_storage(fwd, storage_success) ==
    IF storage_success
    THEN [statusCode |-> 200,
          body |-> IF fwd.success THEN fwd.response
                   ELSE format_ruuvi_cloud_response(TRUE, "inserted", Absent)]
    ELSE [statusCode |-> 500,
          body |-> format_ruuvi_cloud_response(FALSE, Absent, "INTERNAL_ERROR")]

\* lines 678-710: the answer; storage_success is logged and decides nothing
lambda_response(fwd, storage_success) ==
    create_api_gateway_response(200, response_body(fwd))

\* lambda_handler, lines 663-674: store locally
Store(env) ==
    /\ pc = "forwarded"
    /\ UNCHANGED <<store_vars, config_vars, admin_vars, retrieve_vars, thread_vars>>
    /\ storage' = store_sensor_data_locally(request,
                       ruuvi_cloud_response_for_storage(forwarding), env, now)
    /\ pc' = "stored"
    /\ UNCHANGED <<now, ruuvi_cloud_circuit_breaker, request, attempt, retry_delay,
                   ruuvi_cloud_endpoint, forwarding, response, audit,
                   received, failure_streak, failed_at>>

\* lambda_handler, lines 678-710: build the response
Respond ==
    /\ pc = "stored"
    /\ UNCHANGED <<store_vars, config_vars, admin_vars, retrieve_vars, thread_vars>>
    /\ response' = lambda_response(forwarding, storage.result)
    /\ pc' = "done"
    /\ UNCHANGED <<now, ruuvi_cloud_circuit_breaker, request, attempt, retry_delay,
                   ruuvi_cloud_endpoint, forwarding, storage, audit,
                   received, failure_streak, failed_at>>

\* lambda_handler has returned: its locals are gone, the breaker stays
Return ==
    /\ pc = "done"
    /\ UNCHANGED <<store_vars, config_vars, admin_vars, retrieve_vars, thread_vars>>
    /\ pc' = "idle"
    /\ request' = NoRequest
    /\ attempt' = 0
    /\ retry_delay' = initial_retry_delay
    /\ ruuvi_cloud_endpoint' = NoEndpoint
    /\ forwarding' = NoForwarding
    /\ storage' = NoStorage
    /\ response' = NoAnswer
    /\ audit' = NoAudit
    /\ received' = NoBatch
    /\ UNCHANGED <<now, ruuvi_cloud_circuit_breaker, failure_streak, failed_at>>

Next ==
    \/ \E d \in TickChoices : Tick(d)
    \/ \E tpl \in BatchTemplates : Receive(tpl)
    \/ \E cfg \in ConfigOutcomes : ForwardingStart(cfg)
    \/ \E o \in ClientOutcomes : Attempt(o)
    \/ \E env \in StoreEnvs : Store(env)
    \/ Respond
    \/ Return

Spec == Init /\ [][Next]_vars

(***************************************************************************)
(* The sensor data table over successive ingestions.  Spec keeps what one  *)
(* request wrote in storage.persisted; here the writes of request after    *)
(* request meet in the table.                                              *)
(***************************************************************************)
\* time passes between two ingestions
TableTick(d) ==
    /\ now + d <= MaxTime
    /\ now' = now + d
    /\ UNCHANGED <<proxy_vars, store_vars, config_vars, admin_vars, retrieve_vars, thread_vars>>

\* lambda_handler on a batch that passes validation, as far as the table
\* goes: forwarding has returned fwd, store_sensor_data_locally writes
Ingest(tpl, fwd, env) ==
    /\ LET data == gateway_batch(tpl, now)
           st == store_sensor_data_locally(data,
                     ruuvi_cloud_response_for_storage(fwd), env, now)
       IN  /\ validate_ruuvi_request(data, now)
           /\ table' = batch_write(table, st.persisted)
    /\ retrieved' = IF table' = table THEN retrieved
                    ELSE [NoRetrieval EXCEPT
                            !.response.next_token = retrieved.response.next_token]
    /\ UNCHANGED <<now, proxy_vars, config_vars, admin_vars, thread_vars>>

NextStore ==
    \/ \E d \in TickChoices : TableTick(d)
    \/ \E tpl \in BatchTemplates, fwd \in ForwardingResults, env \in StoreEnvs :
          Ingest(tpl, fwd, env)

SpecStore == Init /\ [][NextStore]_vars

(***************************************************************************)
(* One ConfigurationManager called again and again.                        *)
(***************************************************************************)
\* time passes between two calls
ConfigTick(d) ==
    /\ now + d <= MaxConfigTime
    /\ now' = now + d
    /\ UNCHANGED <<proxy_vars, store_vars, config_vars, admin_vars, retrieve_vars, thread_vars>>

\* get_config(key, default)
GetConfig(key, default, fault) ==
    /\ LET r == get_config(_cache, config_table, key, default, fault, now)
       IN  /\ _cache' = r.cache
           /\ returned' = [op |-> "get_config", key |-> key, value |-> default,
                           result |-> r.value, read |-> r.read, wrote |-> FALSE,
                           at |-> now,
                           fault |-> IF r.read THEN fault ELSE "none",
                           raised |-> r.raised]
    /\ UNCHANGED <<now, proxy_vars, store_vars, admin_vars, retrieve_vars, thread_vars,
                   config_table>>

\* set_config(key, value)
SetConfig(key, value, fault) ==
    /\ LET r == set_config(_cache, config_table, key, value, "system", fault, now)
       IN  /\ _cache' = r.cache
           /\ config_table' = r.items
           /\ returned' = [op |-> "set_config", key |-> key, value |-> value,
                           result |-> IF r.raised THEN PyNone ELSE PyBool(r.ret),
                           read |-> FALSE, wrote |-> r.wrote, at |-> now,
                           fault |-> IF r.wrote THEN fault ELSE "none",
                           raised |-> r.raised]
    /\ UNCHANGED <<now, proxy_vars, store_vars, admin_vars, retrieve_vars, thread_vars>>

\* clear_cache()
ClearCache ==
    /\ _cache' = [k \in ConfigKeys |-> NoEntry]
    /\ returned' = [NoCall EXCEPT !.op = "clear_cache", !.at = now]
    /\ UNCHANGED <<now, proxy_vars, store_vars, admin_vars, retrieve_vars, thread_vars,
                   config_table>>

NextConfig ==
    \/ \E d \in ConfigTickChoices : ConfigTick(d)
    \/ \E key \in ConfigKeys, default \in ConfigDefaults, fault \in TableFaults :
          GetConfig(key, default, fault)
    \/ \E key \in ConfigKeys, fault \in TableFaults :
          \E value \in ConfigValues(key) : SetConfig(key, value, fault)
    \/ ClearCache

SpecConfig == Init /\ [][NextConfig]_vars

(***************************************************************************)
(* The configuration Lambda serving request after request.                 *)
(***************************************************************************)
\* the process starts with ADMIN_API_KEY set or unset
InitAdmin ==
    /\ InitProxy
    /\ InitTables
    /\ config_handler \in [admin_api_key : AdminKeys]

\* lambda_handler of config/index.py
HandleRequest(event, fault) ==
    /\ LET r == handle_request(event, config_handler.admin_api_key, _cache,
                               config_table, fault, now)
       IN  /\ _cache' = r.cache
           /\ config_table' = r.items
           /\ config_response' = r.response
    /\ UNCHANGED <<now, proxy_vars, store_vars, returned, config_handler,
                   retrieve_vars, thread_vars>>

NextAdmin ==
    \/ \E d \in ConfigTickChoices : ConfigTick(d)
    \/ \E event \in ConfigEvents, fault \in TableFaults : HandleRequest(event, fault)

SpecAdmin == InitAdmin /\ [][NextAdmin]_vars

(***************************************************************************)
(* The retrieval Lambda over a table that ingestion fills.  Each batch     *)
(* carries one reading; the forwarding is switched off and the store step  *)
(* meets no fault.                                                         *)
(***************************************************************************)
reading(timestamp) == [GoodEntry EXCEPT !.timestamp = timestamp]

\* three readings of Tag0 through two gateways and one reading of Tag1
ReadingTemplates ==
    { [gwmac |-> GoodMac, age |-> 0, tags |-> (Tag0 :> reading(1))],
      [gwmac |-> OtherMac, age |-> 0, tags |-> (Tag0 :> reading(2))],
      [gwmac |-> GoodMac, age |-> 0, tags |-> (Tag0 :> reading(3))],
      [gwmac |-> OtherMac, age |-> 0, tags |-> (Tag1 :> reading(2))] }

\* the readings above and one reading of a third device
DeviceTemplates ==
    ReadingTemplates
      \cup { [gwmac |-> GoodMac, age |-> 0, tags |-> (Tag2 :> reading(1))] }

NotForwarded == [success |-> TRUE, response |-> LocalSuccess, was_forwarded |-> FALSE]
StoreOk ==
    [access |-> "ok", config |-> "ok", ttl_days |-> default_retention_days,
     write |-> "ok"]

DefaultOrder == <<Tag0, Tag1, Tag2>>

\* one invocation of the retrieval Lambda
Retrieve(event, order, fault) ==
    /\ LET answer == lambda_handler(event, table, order, fault)
           historical == event.path = "/history/" /\ answer.statusCode = 200
           continues ==
               /\ retrieved.op = "lambda_handler"
               /\ event.next_token # NoToken
               /\ event.next_token = retrieved.response.next_token
               /\ event.path = retrieved.event.path
               /\ event.device_id = retrieved.event.device_id
               /\ event.start_time = retrieved.event.start_time
               /\ event.end_time = retrieved.event.end_time
               /\ event.limit = retrieved.event.limit
       IN  retrieved' =
               [op |-> "lambda_handler", event |-> event, limit |-> 0,
                order |-> order, fault |-> fault, raised |-> FALSE,
                response |-> answer,
                pages |-> IF ~historical THEN <<>>
                          ELSE IF continues THEN retrieved.pages \o answer.items
                          ELSE answer.items,
                clean |-> /\ historical
                          /\ fault = "none"
                          /\ IF continues THEN retrieved.clean
                             ELSE event.next_token = NoToken]
    /\ UNCHANGED <<now, proxy_vars, store_vars, config_vars, admin_vars, thread_vars>>

NextRetrieve ==
    \/ TableTick(MaxTime)
    \/ \E tpl \in ReadingTemplates : Ingest(tpl, NotForwarded, StoreOk)
    \/ \E event \in AuthenticationEvents : Retrieve(event, DefaultOrder, "none")
    \/ \E event \in QueryEvents(retrieved.response.next_token),
          fault \in {"none", "client_error"} :
          Retrieve(event, DefaultOrder, fault)
    \/ \E event \in QueryEvents(NoToken) :
          /\ event.start_time = NoTime /\ event.end_time = NoTime
          /\ Retrieve(event, DefaultOrder, "exception")
    \/ \E event \in QueryEvents(NoToken), order \in ScanOrders :
          event.path = "/devices" /\ Retrieve(event, order, "none")

SpecRetrieve == Init /\ [][NextRetrieve]_vars

(***************************************************************************)
(* get_all_devices called with a scan limit.                               *)
(***************************************************************************)
ScanLimits == {1, 2, 3}

GetAllDevices(limit, order, fault) ==
    /\ LET device_list == get_all_devices(table, limit, order, fault)
       IN  retrieved' =
               [NoRetrieval EXCEPT
                  !.op = "get_all_devices", !.limit = limit, !.order = order,
                  !.fault = fault, !.raised = device_list.raised,
                  !.response = [NoRetrieveResponse EXCEPT
                                  !.queried = TRUE,
                                  !.devices = device_list.devices]]
    /\ UNCHANGED <<now, proxy_vars, store_vars, config_vars, admin_vars, thread_vars>>

NextDevices ==
    \/ TableTick(MaxTime)
    \/ \E tpl \in DeviceTemplates : Ingest(tpl, NotForwarded, StoreOk)
    \/ \E limit \in ScanLimits, order \in ScanOrders :
          GetAllDevices(limit, order, "none")
    \/ \E limit \in ScanLimits, fault \in TableFaults :
          GetAllDevices(limit, DefaultOrder, fault)

SpecDevices == Init /\ [][NextDevices]_vars

(***************************************************************************)
(* Properties.                                                             *)
(***************************************************************************)
\* a request that passed validation is in hand
ValidBatch == DOMAIN request.tags # {}

\* lambda_handler has built its answer to a valid batch
Answered == pc = "done" /\ ValidBatch

\* the breaker is OPEN and the recovery window has not passed
OpenInWindow(b, t) ==
    b.state = "OPEN" /\ t - b.last_failure_time < recovery_timeout

\* the step records one more success / failure on the breaker
RecordsSuccess == audit'.recorded_successes = audit.recorded_successes + 1
RecordsFailure == audit'.recorded_failures = audit.recorded_failures + 1

\* C1: whenever lambda_handler answers a valid batch, and whatever the
\* forwarding outcome was, store_batch_sensor_data has been invoked with one
\* entry for every tag of the batch.  Stated for the requests whose store
\* step obtained its data access object and its retention setting, so that
\* only the forwarding outcome is left to decide.
C1_BatchWriteWithEveryEntry ==
    (Answered /\ storage.setup = "ok") =>
        /\ storage.called
        /\ {i.device_id : i \in storage.list} = DOMAIN request.tags

\* C2 as stated: a reading handed to the batch write carries a vendor
\* response if and only if the forwarding attempt of its batch was made and
\* reported success.
C2_VendorResponseIffForwardingSucceeded ==
    pc \in {"stored", "done"} =>
        /\ \A i \in storage.list :
              (i.ruuvi_cloud_response # NoneResponse) <=> audit.upstream_ok
        /\ \A i \in storage.persisted :
              (i.ruuvi_cloud_response # NoneResponse) <=> audit.upstream_ok

\* the upstream's answer is a success envelope: an object whose result is
\* "success" and that has a data member
SuccessEnvelope(r) == r.kind = "dict" /\ r.result = "success" /\ r.data # Absent

\* C2 amended: a reading handed to the batch write, and a reading written,
\* carries a vendor response if and only if the forwarding attempt of its
\* batch was made, reported success and answered with a success envelope;
\* the response carried is then the upstream's answer unchanged.
C2_VendorResponseIffSuccessEnvelope ==
    pc \in {"stored", "done"} =>
        /\ \A i \in storage.list :
              /\ (i.ruuvi_cloud_response # NoneResponse)
                     <=> (audit.upstream_ok /\ SuccessEnvelope(audit.upstream_body))
              /\ i.ruuvi_cloud_response # NoneResponse
                     => i.ruuvi_cloud_response = audit.upstream_body
        /\ \A i \in storage.persisted :
              /\ (i.ruuvi_cloud_response # NoneResponse)
                     <=> (audit.upstream_ok /\ SuccessEnvelope(audit.upstream_body))
              /\ i.ruuvi_cloud_response # NoneResponse
                     => i.ruuvi_cloud_response = audit.upstream_body

\* C2 witnesses: a batch of two readings was written with the upstream's
\* answer on both, and a batch whose forwarding reported success was written
\* without it
C2_WrittenWithVendorResponse ==
    /\ pc = "done"
    /\ Cardinality(storage.persisted) = 2
    /\ \A i \in storage.persisted : i.ruuvi_cloud_response = audit.upstream_body
    /\ audit.upstream_body.data = "updated"

\* C3: the answer to a valid batch has status 200; its body is the upstream's
\* response unchanged when forwarding succeeded and the local success
\* envelope (result success, action inserted) in every other outcome.
C3_AnswerToValidBatch ==
    Answered =>
        /\ response.statusCode = 200
        /\ response.body = IF audit.upstream_ok
                           THEN audit.upstream_body
                           ELSE Dict("success", "inserted", Absent)

\* C3 witness: all four upstream calls of a request failed and the gateway
\* was answered with the local success envelope
C3_RetriesExhaustedAnsweredLocally ==
    /\ Answered
    /\ audit.upstream_calls = max_retries + 1
    /\ ~audit.upstream_ok
    /\ forwarding.response.result = "error"
    /\ response.body = Dict("success", "inserted", Absent)

C5_OpensAtThreshold ==
    LET b == ruuvi_cloud_circuit_breaker
    IN  /\ failure_streak < failure_threshold =>
               /\ b.state = "CLOSED"
               /\ b.failure_count = failure_streak
               /\ can_execute(b, now).ret
        /\ failure_streak = failure_threshold => b.state # "CLOSED"
        /\ (failure_streak = failure_threshold /\ now - failed_at < recovery_timeout) =>
               /\ b.state = "OPEN"
               /\ ~can_execute(b, now).ret

\* C5 witness: the fifth failure in a row has just been recorded
C5_FifthFailureRecorded ==
    /\ failure_streak = failure_threshold
    /\ failed_at = now
    /\ ruuvi_cloud_circuit_breaker.state = "OPEN"
    /\ ~can_execute(ruuvi_cloud_circuit_breaker, now).ret

\* C6: while the breaker is OPEN and the recovery window has not passed, no
\* pass of the retry loop is made (no client is built, send_sensor_data is
\* not called), and the request can_execute turns away leaves failure_count
\* and last_failure_time as they were.
C6_NoAttemptWhileOpen ==
    [][LET b == ruuvi_cloud_circuit_breaker
       IN  OpenInWindow(b, now) =>
               /\ audit'.attempts # audit.attempts + 1
               /\ audit'.breaker = "rejected" =>
                      /\ ruuvi_cloud_circuit_breaker'.failure_count = b.failure_count
                      /\ ruuvi_cloud_circuit_breaker'.last_failure_time
                             = b.last_failure_time]_vars

\* C7 as stated: while the breaker is HALF_OPEN at most one upstream call is
\* made: no second call before an outcome is recorded.
C7_SingleTrialCall ==
    [][(ruuvi_cloud_circuit_breaker.state = "HALF_OPEN"
            /\ audit'.upstream_calls = audit.upstream_calls + 1)
          => audit.upstream_calls = 0]_vars

\* C7 amended: the breaker becomes HALF_OPEN only by can_execute, once
\* recovery_timeout seconds have passed since the recorded failure, and it
\* is HALF_OPEN only inside the retry loop of the one request that
\* can_execute let through as the trial.  Until that request records an
\* outcome it may call the upstream up to max_retries + 1 times (a retryable
\* failure is retried and records nothing); the first outcome recorded
\* leaves HALF_OPEN.
C7_TrialRequestRetries ==
    LET b == ruuvi_cloud_circuit_breaker
    IN  b.state = "HALF_OPEN" =>
            /\ pc = "attempt"
            /\ audit.breaker = "trial"
            /\ now - b.last_failure_time >= recovery_timeout
            /\ audit.recorded_successes + audit.recorded_failures = 0
            /\ audit.upstream_calls = audit.attempts
            /\ audit.upstream_calls <= max_retries

\* C7 witness: the trial request has called the upstream max_retries times
\* and is about to call it once more, the breaker still HALF_OPEN
C7_TrialCalledThrice ==
    /\ ruuvi_cloud_circuit_breaker.state = "HALF_OPEN"
    /\ audit.upstream_calls = max_retries
    /\ pc = "attempt"

\* C8: a success recorded from HALF_OPEN leaves the breaker CLOSED with
\* failure_count 0; a failure recorded from HALF_OPEN leaves it OPEN with
\* last_failure_time the time of that failure, so that can_execute returns
\* false until recovery_timeout seconds later and true from then on.
C8_TrialOutcome ==
    [][ruuvi_cloud_circuit_breaker.state = "HALF_OPEN" =>
          /\ RecordsSuccess =>
                 /\ ruuvi_cloud_circuit_breaker'.state = "CLOSED"
                 /\ ruuvi_cloud_circuit_breaker'.failure_count = 0
          /\ RecordsFailure =>
                 /\ ruuvi_cloud_circuit_breaker'.state = "OPEN"
                 /\ ruuvi_cloud_circuit_breaker'.last_failure_time = now
                 /\ \A t \in now .. (now + recovery_timeout - 1) :
                        ~can_execute(ruuvi_cloud_circuit_breaker', t).ret
                 /\ can_execute(ruuvi_cloud_circuit_breaker',
                                now + recovery_timeout).ret]_vars

\* C8 witnesses: the first pass of a trial request recorded a failure and
\* the breaker is OPEN again from that moment; a trial request recorded a
\* success and the breaker is CLOSED
C8_TrialFailedReopened ==
    /\ audit.breaker = "trial"
    /\ audit.attempts = 1
    /\ audit.recorded_failures = 1
    /\ pc = "forwarded"
    /\ ruuvi_cloud_circuit_breaker.state = "OPEN"
    /\ ruuvi_cloud_circuit_breaker.last_failure_time = now
    /\ now >= recovery_timeout

\* C9: the breaker's state changes only CLOSED to OPEN by a recorded failure
\* that brings failure_count to failure_threshold, OPEN to HALF_OPEN by
\* can_execute after the recovery window, HALF_OPEN to CLOSED by a recorded
\* success, HALF_OPEN to OPEN by a recorded failure.
C9_OnlyListedTransitions ==
    [][LET b == ruuvi_cloud_circuit_breaker
           s == ruuvi_cloud_circuit_breaker.state
           s2 == ruuvi_cloud_circuit_breaker'.state
       IN  s # s2 =>
             \/ /\ s = "CLOSED" /\ s2 = "OPEN"
                /\ RecordsFailure
                /\ ruuvi_cloud_circuit_breaker'.failure_count = failure_threshold
             \/ /\ s = "OPEN" /\ s2 = "HALF_OPEN"
                /\ pc = "forwarding" /\ pc' = "attempt"
                /\ now - b.last_failure_time >= recovery_timeout
             \/ /\ s = "HALF_OPEN" /\ s2 = "CLOSED"
                /\ RecordsSuccess
             \/ /\ s = "HALF_OPEN" /\ s2 = "OPEN"
                /\ RecordsFailure]_vars

\* C9 witness: a breaker that was opened and then tried is CLOSED again:
\* the trial request recorded a success
C9_ClosedAfterTrial ==
    /\ audit.breaker = "trial"
    /\ audit.recorded_successes = 1
    /\ ruuvi_cloud_circuit_breaker.state = "CLOSED"
    /\ ruuvi_cloud_circuit_breaker.failure_count = 0

\* C10: a request the breaker let through records nothing while its retry
\* loop runs and exactly one outcome when the loop has ended: one
\* record_success when an attempt succeeded, one record_failure otherwise.
C10_OneOutcomePerRequest ==
    audit.breaker \in {"permitted", "trial"} =>
        /\ pc = "attempt" =>
               audit.recorded_successes + audit.recorded_failures = 0
        /\ pc = "forwarded" =>
               /\ audit.recorded_successes + audit.recorded_failures = 1
               /\ audit.recorded_successes = (IF audit.upstream_ok THEN 1 ELSE 0)

\* the request in hand was let through by the breaker, its client worked,
\* and its retry loop has ended in a failure whose code is error_code
EndedInFailure ==
    /\ pc = "forwarded"
    /\ audit.upstream_calls > 0
    /\ ~audit.upstream_ok

RetryableAllowList ==
    {"TIMEOUT_ERROR", "CONNECTION_ERROR", "HTTP_500", "HTTP_502", "HTTP_503",
     "HTTP_504"}

\* the step is a pass of the retry loop in which the client reports a
\* failure with a code outside the retryable allow-list
NonRetryableFailureStep ==
    /\ pc = "attempt"
    /\ audit'.upstream_calls = audit.upstream_calls + 1
    /\ ~audit'.upstream_ok
    /\ audit'.last_error \notin RetryableAllowList

\* C12: a pass in which the client fails with a code outside the retryable
\* allow-list ends the loop there: no sleep, no further pass, that error is
\* returned; when it is the first pass the request has made exactly one
\* attempt.
C12_NonRetryableEndsTheLoop ==
    [][NonRetryableFailureStep =>
          /\ pc' = "forwarded"
          /\ now' = now
          /\ audit'.slept = audit.slept
          /\ audit'.attempts = audit.attempts + 1
          /\ Len(audit.slept) = audit.attempts
          /\ forwarding' = [success |-> FALSE,
                            response |-> Dict("error", Absent, audit'.last_error),
                            was_forwarded |-> TRUE]]_vars

\* C12 witness: the first attempt failed with HTTP_400 and the loop ended
\* after that one attempt, without a sleep
C12_OneAttemptOnly ==
    /\ EndedInFailure
    /\ audit.last_error = "HTTP_400"
    /\ audit.attempts = 1
    /\ audit.slept = <<>>
    /\ forwarding.response.error = "HTTP_400"

\* handle_ruuvi_cloud_forwarding has returned for the request in hand
Forwarded == pc \in {"forwarded", "stored", "done"} /\ ValidBatch

\* C13 as stated: the forwarded flag is true exactly when the request made
\* at least one pass through the retry loop.
C13_FlagIffAttemptMade ==
    Forwarded => (forwarding.was_forwarded <=> audit.attempts > 0)

\* C13 amended: the forwarded flag is true exactly when forwarding was
\* enabled and can_execute was asked and answered, also when it answered no:
\* the request an open breaker turns away has made no attempt and carries
\* the flag true, with success false and the code CIRCUIT_BREAKER_OPEN; the
\* flag is false only when forwarding is disabled or reading the settings
\* failed.
C13_FlagIffBreakerAsked ==
    Forwarded =>
        /\ forwarding.was_forwarded
               <=> audit.breaker \in {"rejected", "permitted", "trial"}
        /\ ~forwarding.was_forwarded <=> audit.config \in {"disabled", "fault"}
        /\ audit.breaker = "rejected" =>
               /\ audit.attempts = 0
               /\ forwarding = [success |-> FALSE,
                                response |-> Dict("error", Absent, "CIRCUIT_BREAKER_OPEN"),
                                was_forwarded |-> TRUE]
        /\ audit.attempts > 0 => forwarding.was_forwarded

\* C13 witness: an open breaker turned the request away, no attempt was
\* made, and the flag is true
C13_RejectedAndFlagged ==
    /\ pc = "forwarded"
    /\ audit.breaker = "rejected"
    /\ audit.attempts = 0
    /\ forwarding.was_forwarded
    /\ ruuvi_cloud_circuit_breaker.state = "OPEN"

\* the triples handle_ruuvi_cloud_forwarding may return: two flags and a
\* response, which is an error envelope when success is false
ForwardingTriple(f) ==
    /\ f.success \in BOOLEAN
    /\ f.was_forwarded \in BOOLEAN
    /\ f.response.kind # "none"
    /\ ~f.success => (f.response.kind = "dict" /\ f.response.result = "error"
                        /\ f.response.error # Absent)

\* C14: every step handle_ruuvi_cloud_forwarding takes, whatever the read of
\* the settings, the breaker or the client does, either goes on with a pass
\* of the loop numbered at most max_retries or returns a triple; a fault of
\* the settings read returns (true, local success, false), and a client that
\* raises on every pass returns (false, FORWARDING_EXCEPTION, true).
C14_AlwaysReturnsATriple ==
    [][(pc = "forwarding" \/ pc = "attempt") =>
          /\ \/ /\ pc' = "attempt"
                /\ attempt' <= max_retries
                /\ pc = "attempt" => attempt' = attempt + 1
             \/ /\ pc' = "forwarded"
                /\ ForwardingTriple(forwarding')
          /\ audit'.config = "fault" =>
                 /\ pc' = "forwarded"
                 /\ forwarding' = [success |-> TRUE, response |-> LocalSuccess,
                                   was_forwarded |-> FALSE]]_vars

\* C14 witness: the client raised on each of the four passes and the
\* function returned the FORWARDING_EXCEPTION triple
C14_ReturnedAfterExceptions ==
    /\ pc = "forwarded"
    /\ audit.attempts = max_retries + 1
    /\ audit.upstream_calls = 0
    /\ forwarding = [success |-> FALSE,
                     response |-> Dict("error", Absent, "FORWARDING_EXCEPTION"),
                     was_forwarded |-> TRUE]

\* every tag of the request in hand is in the set of items, without a
\* vendor response
EveryReadingWithoutResponse(items) ==
    /\ {i.device_id : i \in items} = DOMAIN request.tags
    /\ \A i \in items :
          /\ i.ruuvi_cloud_response = NoneResponse
          /\ i.timestamp = request.tags[i.device_id].timestamp
          /\ i.measurements.data = request.tags[i.device_id].data
          /\ i.measurements.rssi = request.tags[i.device_id].rssi

\* C15: a request that read the forwarding flag as false makes no pass
\* through the retry loop, leaves the breaker as it was, hands every reading
\* to the batch write without a vendor response (they are all written when
\* the write goes through), and answers 200 with the local success envelope.
C15_DisabledForwarding ==
    [][audit'.config = "disabled" =>
          /\ ruuvi_cloud_circuit_breaker' = ruuvi_cloud_circuit_breaker
          /\ failure_streak' = failure_streak
          /\ audit'.attempts = 0 /\ audit'.upstream_calls = 0
          /\ audit'.recorded_successes + audit'.recorded_failures = 0
          /\ storage'.setup = "ok" =>
                 /\ storage'.called
                 /\ EveryReadingWithoutResponse(storage.list)'
          /\ storage'.result => EveryReadingWithoutResponse(storage.persisted)'
          /\ pc' = "done" =>
                 response' = [statusCode |-> 200,
                              body |-> Dict("success", "inserted", Absent)]]_vars

\* C15 witness: with forwarding disabled a batch of two readings was
\* written and answered
C15_DisabledStoredAndAnswered ==
    /\ pc = "done"
    /\ audit.config = "disabled"
    /\ Cardinality(storage.persisted) = 2
    /\ EveryReadingWithoutResponse(storage.persisted)
    /\ response.body = LocalSuccess

\* the batch breaks one of the rules validation enforces
BreaksValidation(tpl) ==
    \/ tpl.gwmac \notin MacPattern
    \/ tpl.age > timestamp_window
    \/ \E d \in DOMAIN tpl.tags :
          tpl.tags[d].rssi < rssi_min \/ tpl.tags[d].rssi > rssi_max
    \/ \A d \in DOMAIN tpl.tags : tpl.tags[d].data \notin Base64Decodable

C17_LenientFailuresDropped ==
    pc \in {"stored", "done"} =>
        /\ \A i \in storage.list : i.device_id \in get_sensor_data_list(request)
        /\ \A i \in storage.persisted : i.device_id \in get_sensor_data_list(request)

\* C18: a reading stored under (device_id, timestamp) stays as it is: no
\* later ingestion changes the item the table holds under that key, be it
\* its measurements, gateway, server timestamp, vendor response or expiry
C18_StoredReadingImmutable ==
    [][\A i \in table : \A j \in table' :
          (j.device_id = i.device_id /\ j.timestamp = i.timestamp) => j = i]_vars

\* the step is a call of set_config
SetConfigStep == returned'.op = "set_config" /\ now' = now

\* the values of data_retention_days named as rejected: 0, -1 and 5000
RejectedRetention(call) ==
    /\ call.key = "data_retention_days"
    /\ call.value \in {PyInt(0), PyInt(-1), PyInt(5000)}

\* C19: a set_config whose value the key's validator rejects, as it does
\* data_retention_days 0, -1 and 5000, returns False without calling
\* put_item and leaves the configuration table and the cache as they were
C19_RejectedValueChangesNothing ==
    [][(/\ SetConfigStep
        /\ \/ ~_validate_config(returned'.key, returned'.value)
           \/ RejectedRetention(returned'))
          => /\ returned'.result = PyBool(FALSE)
             /\ ~returned'.wrote
             /\ config_table' = config_table
             /\ _cache' = _cache]_vars

\* C19 witness: data_retention_days 0 was refused while the key had an item
\* in the table and an entry in the cache
C19_ZeroDaysRefused ==
    /\ returned.op = "set_config"
    /\ returned.key = "data_retention_days"
    /\ returned.value = PyInt(0)
    /\ returned.result = PyBool(FALSE)
    /\ config_table["data_retention_days"] # NoItem
    /\ _cache["data_retention_days"] # NoEntry

\* the step is a get_config of the key the last call, a set_config that
\* returned True, has set
GetAfterSetStep ==
    /\ returned.op = "set_config"
    /\ returned.result = PyBool(TRUE)
    /\ returned'.op = "get_config"
    /\ returned'.key = returned.key

\* C20 as stated: after set_config(key, v) returned True the next
\* get_config(key) returns v and does not read the configuration table
C20_NextGetServedFromCache ==
    [][GetAfterSetStep
          => /\ returned'.result = returned.value
             /\ ~returned'.read]_vars

\* C20: after set_config(key, v) returned True, the next get_config(key)
\* returns v without reading the configuration table when it is made less
\* than cache_ttl_seconds after the set, whatever the age of the entry the
\* key had before; made later, it reads the configuration table
C20_NextGetWithinTtlServedFromCache ==
    [][GetAfterSetStep
          => IF returned'.at - returned.at < cache_ttl_seconds
             THEN /\ returned'.result = returned.value
                  /\ ~returned'.read
             ELSE returned'.read]_vars

\* C20 witness: get_config("site_name") answered the text "30" from the
\* entry a set_config made at the same instant; a read of the table would
\* have answered the number 30
C20_SetValueServed ==
    /\ returned.op = "get_config"
    /\ returned.key = "site_name"
    /\ returned.result = PyStr("30")
    /\ ~returned.read
    /\ _cache["site_name"].timestamp = returned.at
    /\ config_table["site_name"].last_updated = returned.at

\* the step is a call of get_config
GetConfigStep == returned'.op = "get_config" /\ now' = now

\* C21: get_config answers from the cache, without reading the
\* configuration table, whenever the key has an entry younger than
\* cache_ttl_seconds; with no entry, or one whose age has reached
\* cache_ttl_seconds, it reads the table, and the value it reads there goes
\* into the cache with the time of the call and is returned
C21_CacheServesUntilTtl ==
    [][GetConfigStep =>
          LET key == returned'.key
              entry == _cache[key]
          IN  IF entry # NoEntry /\ now - entry.timestamp < cache_ttl_seconds
              THEN /\ returned'.result = entry.value
                   /\ ~returned'.read
                   /\ _cache' = _cache
              ELSE /\ returned'.read
                   /\ (returned'.fault = "none" /\ config_table[key] # NoItem)
                        => LET value == _deserialize_value(config_table[key].config_value)
                           IN  /\ returned'.result = value
                               /\ _cache'[key] = [value |-> value, timestamp |-> now]]_vars

\* C21 witness: an item written at clock 0 was read from the table at clock
\* cache_ttl_seconds and its value cached with that time
C21_ExpiredEntryRefreshed ==
    /\ returned.op = "get_config"
    /\ returned.at = cache_ttl_seconds
    /\ returned.read
    /\ returned.fault = "none"
    /\ config_table[returned.key].last_updated = 0
    /\ _cache[returned.key] = [value |-> returned.result, timestamp |-> returned.at]

ReferenceDeserialize(text) ==
    IF lower(text) \in {"true", "false"}
    THEN PyBool(lower(text) = "true")
    ELSE IF is_int_text(text)
    THEN PyInt(parse_int(text))
    ELSE IF text \in FloatTexts
    THEN PyFloat(text)
    ELSE PyStr(text)

\* C23: for every text stored in the configuration table, _deserialize_value
\* gives what the reference reading gives
C23_DeserializeAsReference ==
    \A key \in ConfigKeys :
        config_table[key] # NoItem
          => _deserialize_value(config_table[key].config_value)
               = ReferenceDeserialize(config_table[key].config_value)

\* the request carries no x-api-key value, or one that is not the
\* configured administrator key, or no administrator key is configured
Unauthorized(event) ==
    \/ event.api_key \in {Absent, ""}
    \/ config_handler.admin_api_key \in {Absent, ""}
    \/ event.api_key # config_handler.admin_api_key

\* C24: a GET or PUT whose x-api-key is absent or is not the configured
\* administrator key, and every request when no administrator key is
\* configured, is answered 401 and reads and writes no configuration: no
\* scan, no set_config call, table and cache as they were
C24_UnauthorizedTouchesNothing ==
    [][(now' = now /\ Unauthorized(config_response'.event)) =>
          /\ config_response'.statusCode = 401
          /\ ~config_response'.scanned
          /\ config_response'.set_calls = 0
          /\ config_table' = config_table
          /\ _cache' = _cache]_vars

\* C24 witness: a PUT of data_retention_days with another key than the
\* administrator's was answered 401 while the table held an item
C24_WrongKeyRefused ==
    /\ config_response.statusCode = 401
    /\ config_response.event.httpMethod = "PUT"
    /\ config_response.event.api_key = "invalid-key"
    /\ config_response.event.body.items # <<>>
    /\ config_handler.admin_api_key = AdminKey
    /\ config_table["data_retention_days"] # NoItem

(***************************************************************************)
(* The retrieval properties.                                               *)
(***************************************************************************)
\* the last call is a request the retrieval Lambda took to a handler
HandlerAnswered(path) ==
    /\ retrieved.op = "lambda_handler"
    /\ retrieved.event.path = path
    /\ retrieved.event.device_id # Absent
    /\ retrieved.response.queried

\* the stored readings of a device, as the data access layer returns them
readings_of(device_id) ==
    {_format_sensor_data(i) : i \in {j \in table : j.device_id = device_id}}

\* the readings a historical request asks for
matching_readings(event) ==
    {r \in readings_of(event.device_id) :
        /\ (event.start_time # NoTime => r.timestamp >= event.start_time)
        /\ (event.end_time # NoTime => r.timestamp <= event.end_time)}

requested_limit(event) == IF event.limit # NoTime THEN event.limit ELSE default_limit

\* strictly ascending by timestamp
Ascending(seq) ==
    \A j, k \in 1..Len(seq) : j < k => seq[j].timestamp < seq[k].timestamp

\* C25: the items of a historical answer are stored readings of the
\* requested device, every one at or after start_time when start_time is
\* given and at or before end_time when end_time is given (0 included), in
\* ascending timestamp order, and at most limit of them
C25_HistoricalWithinBounds ==
    (HandlerAnswered("/history/") /\ retrieved.response.statusCode = 200)
      => LET items == retrieved.response.items
         IN  /\ \A k \in 1..Len(items) : items[k] \in matching_readings(retrieved.event)
             /\ Ascending(items)
             /\ Len(items) <= requested_limit(retrieved.event)
             /\ retrieved.response.count = Len(items)

\* C25: the part of the statement that the code does meet: bounds other
\* than 0 are kept, so are the device, the order and the limit
C25_HistoricalWithinNonZeroBounds ==
    (/\ HandlerAnswered("/history/") /\ retrieved.response.statusCode = 200
     /\ retrieved.event.end_time # 0 /\ retrieved.event.start_time # 0)
      => LET items == retrieved.response.items
         IN  /\ \A k \in 1..Len(items) : items[k] \in matching_readings(retrieved.event)
             /\ Ascending(items)
             /\ Len(items) <= requested_limit(retrieved.event)

\* a request for the readings up to time 0 is answered with a later reading
C25_EndTimeZeroIgnored ==
    /\ HandlerAnswered("/history/") /\ retrieved.response.statusCode = 200
    /\ retrieved.event.end_time = 0
    /\ \E k \in 1..Len(retrieved.response.items) :
          retrieved.response.items[k].timestamp > 0

\* a chain of historical answers that began without a cursor, met no fault
\* and has come to its end
ChainEnded ==
    /\ HandlerAnswered("/history/") /\ retrieved.response.statusCode = 200
    /\ retrieved.clean
    /\ retrieved.response.next_token = NoToken

summary_of(device_id) ==
    LET last == CHOOSE r \in readings_of(device_id) :
                    \A q \in readings_of(device_id) : q.timestamp <= r.timestamp
    IN  [device_id |-> device_id, gateway_id |-> last.gateway_id,
         last_seen |-> last.timestamp, last_seen_server |-> last.server_timestamp]

stored_devices == {i.device_id : i \in table}

\* the list has one summary per stored device, each of the device's last
\* reading, and descends by last_seen
ListsEveryDevice(devices) ==
    /\ Len(devices) = Cardinality(stored_devices)
    /\ {devices[k] : k \in 1..Len(devices)} = {summary_of(d) : d \in stored_devices}
    /\ \A j, k \in 1..Len(devices) : j < k => devices[j].last_seen >= devices[k].last_seen

DevicesListed ==
    /\ retrieved.op = "get_all_devices"
    /\ retrieved.fault = "none"

C28_CurrentIsGreatestTimestamp ==
    (/\ HandlerAnswered("/current/") /\ retrieved.fault = "none"
     /\ readings_of(retrieved.event.device_id) # {})
      => /\ retrieved.response.statusCode = 200
         /\ Len(retrieved.response.data) = 1
         /\ retrieved.response.data[1] \in readings_of(retrieved.event.device_id)
         /\ \A r \in readings_of(retrieved.event.device_id) :
               r.timestamp <= retrieved.response.data[1].timestamp

\* the reading returned was written before another reading of the device
C28_NotTheLastIngested ==
    /\ HandlerAnswered("/current/") /\ retrieved.response.statusCode = 200
    /\ \E r \in readings_of(retrieved.event.device_id) :
          /\ r.server_timestamp > retrieved.response.data[1].server_timestamp
          /\ r.timestamp < retrieved.response.data[1].timestamp

\* C29: a current-value request is answered 404 NOT_FOUND only when the
\* device has no stored reading, and is answered 500 when the table read
\* meets a fault
C29_NotFoundOnlyWhenNoReading ==
    HandlerAnswered("/current/")
      => /\ retrieved.response.statusCode = 404
              => readings_of(retrieved.event.device_id) = {}
         /\ retrieved.fault # "none" => retrieved.response.statusCode = 500

\* the table read failed with a ClientError and the answer for a device
\* with a stored reading is 404 NOT_FOUND
C29_FaultAnsweredNotFound ==
    /\ HandlerAnswered("/current/")
    /\ retrieved.fault = "client_error"
    /\ readings_of(retrieved.event.device_id) # {}
    /\ retrieved.response.statusCode = 404
    /\ retrieved.response.code = "NOT_FOUND"

\* a GET request to the retrieval Lambda
RetrievalRequest ==
    retrieved.op = "lambda_handler" /\ retrieved.event.httpMethod = "GET"

HasApiKey(event) == event.api_key \notin {Absent, ""}

C31_CountsAccountForBatch ==
    storage.counts # <<>>
      => /\ storage.counts[1] + storage.counts[2] = Cardinality(storage.list)
         /\ storage.counts[1] <= Cardinality(storage.persisted)

\* the part the code meets: no reading is counted as stored that did not
\* reach the table
C31_SuccessesArePersisted ==
    storage.counts # <<>>
      => storage.counts[1] <= Cardinality(storage.persisted)

\* the flush of the batch writer failed and both counts are 0
C31_FlushFaultCountsNothing ==
    /\ storage.counts = <<0, 0>>
    /\ storage.list # {}
    /\ storage.persisted = {}

(***************************************************************************)
(* The cap of the device listing.                                          *)
(***************************************************************************)
\* C32: get_all_devices(limit) returns, and the list it returns holds at
\* most limit summaries
C32_AtMostLimitDevices ==
    (retrieved.op = "get_all_devices" /\ ~retrieved.raised)
      => Len(retrieved.response.devices) <= retrieved.limit

\* the scan went on after a full page of one device and the next page
\* brought two more devices: three summaries for a limit of 2
C32_PastTheCap ==
    /\ retrieved.op = "get_all_devices"
    /\ retrieved.limit = 2
    /\ Len(retrieved.response.devices) = 3

\* the part the code meets: the list has fewer than twice limit summaries
C32_BelowTwiceLimit ==
    (retrieved.op = "get_all_devices" /\ ~retrieved.raised)
      => Len(retrieved.response.devices) < 2 * retrieved.limit

(***************************************************************************)
(* Serializing and deserializing a configuration value.                    *)
(***************************************************************************)
\* the last call is a set_config that wrote its value to the table
ValueWritten ==
    /\ returned.op = "set_config"
    /\ returned.wrote /\ returned.fault = "none"

\* C33: the text set_config stores for a boolean, an integer, a string or a
\* list is deserialized to the value that was set
C33_SerializeDeserializeRoundTrip ==
    ValueWritten
      => /\ config_table[returned.key].config_value = _serialize_value(returned.value)
         /\ _deserialize_value(config_table[returned.key].config_value)
               = returned.value

\* the part the code meets: booleans, integers, lists and the strings that
\* read neither as JSON nor as a number come back as they were
C33_RoundTripButForStrings ==
    (ValueWritten /\ (returned.value.type = "str"
                        => returned.value.s \in {"garden", "inf"}))
      => _deserialize_value(config_table[returned.key].config_value)
           = returned.value

\* the string "30" was stored and reads back as the integer 30
C33_StringReadAsInteger ==
    /\ ValueWritten
    /\ returned.value = PyStr("30")
    /\ _deserialize_value(config_table[returned.key].config_value) = PyInt(30)

(***************************************************************************)
(* Defaults and the cache.                                                 *)
(***************************************************************************)
\* the last call was a get_config that read the table, found no item for
\* its key and answered a default, and the step is the next call, a
\* get_config of the same key made less than cache_ttl_seconds later
GetAfterDefaultStep ==
    /\ returned.op = "get_config"
    /\ returned.read /\ returned.fault = "none"
    /\ config_table[returned.key] = NoItem
    /\ returned'.op = "get_config"
    /\ returned'.key = returned.key
    /\ returned'.at - returned.at < cache_ttl_seconds

\* C34: for a key without an item in the configuration table, the
\* get_config that follows, within the TTL, a get_config that read the table
\* and fell back to a default does not read the table
C34_DefaultNotReadAgain ==
    [][GetAfterDefaultStep => ~returned'.read]_vars

\* what the code does: the default is not kept in the cache, and the next
\* get_config reads the table again
C34_DefaultReadAgain ==
    [][GetAfterDefaultStep => (returned'.read /\ _cache[returned.key] = NoEntry)]_vars

(***************************************************************************)
(* The breaker's fields over requests handled one after the other.         *)
(***************************************************************************)
\* C35: in every state of requests handled one after the other, a CLOSED
\* breaker has a failure_count below failure_threshold, an OPEN or
\* HALF_OPEN breaker has a failure_count of at least failure_threshold and a
\* last_failure_time, and failure_count is not negative
C35_BreakerFieldsAgree ==
    LET b == ruuvi_cloud_circuit_breaker
    IN  /\ b.failure_count >= 0
        /\ b.state \in {"CLOSED", "OPEN", "HALF_OPEN"}
        /\ b.state = "CLOSED" => b.failure_count < failure_threshold
        /\ b.state \in {"OPEN", "HALF_OPEN"}
              => /\ b.failure_count >= failure_threshold
                 /\ b.last_failure_time # NoTime

\* the breaker is OPEN again after the trial request failed: the count is
\* above the threshold and the instant is that of the trial's failure
C35_ReopenedAboveThreshold ==
    /\ ruuvi_cloud_circuit_breaker.state = "OPEN"
    /\ ruuvi_cloud_circuit_breaker.failure_count > failure_threshold
    /\ ruuvi_cloud_circuit_breaker.last_failure_time >= recovery_timeout
    /\ audit.breaker = "trial"

\* C36: requests being handled one at a time, the breaker is HALF_OPEN only
\* inside the retry loop of the request that moved it there: when
\* handle_ruuvi_cloud_forwarding has returned, and between requests, it is
\* CLOSED or OPEN
C36_HalfOpenOnlyInsideTrial ==
    ruuvi_cloud_circuit_breaker.state = "HALF_OPEN"
      => (pc = "attempt" /\ audit.breaker = "trial")

\* the request that moved the breaker to HALF_OPEN has been answered after
\* a successful upstream call, and the breaker is CLOSED
C36_TrialReturnedClosed ==
    /\ pc = "done"
    /\ audit.breaker = "trial"
    /\ audit.upstream_ok
    /\ ruuvi_cloud_circuit_breaker.state = "CLOSED"


(***************************************************************************)
(* Concurrent requests on one process: the statements of can_execute,      *)
(* record_success and record_failure on the module-level breaker, one      *)
(* attribute read or write at a time, nothing guarding them (proxy/index.py *)
(* holds no lock).                                                         *)
(***************************************************************************)
\* the variables of a request handled alone, which the threads leave alone
request_vars == <<pc, request, attempt, retry_delay, ruuvi_cloud_endpoint, forwarding, storage, response, audit, received, failure_streak, failed_at>>

\* the thread t moves to the statement at, holding the values local
goto(t, at, local) == threads' = [threads EXCEPT ![t] = [pc |-> at, local |-> local]]

\* handle_ruuvi_cloud_forwarding, line 460: a request asks the breaker
CallCanExecute(t) ==
    /\ threads[t].pc = "idle"
    /\ goto(t, "can_execute_closed", <<>>)
    /\ UNCHANGED <<now, ruuvi_cloud_circuit_breaker, request_vars, store_vars, config_vars, admin_vars, retrieve_vars>>

\* can_execute, lines 89-100, one statement at a time
CanExecuteStep(t) ==
    /\ LET b == ruuvi_cloud_circuit_breaker
           at == threads[t].pc
       IN  \/ /\ at = "can_execute_closed"
              /\ goto(t, IF b.state = "CLOSED" THEN "permitted" ELSE "can_execute_open", <<>>)
              /\ UNCHANGED ruuvi_cloud_circuit_breaker
           \/ /\ at = "can_execute_open"
              /\ goto(t, IF b.state = "OPEN" THEN "can_execute_elapsed"
                         ELSE "can_execute_half_open", <<>>)
              /\ UNCHANGED ruuvi_cloud_circuit_breaker
           \/ /\ at = "can_execute_elapsed"
              /\ goto(t, IF b.last_failure_time = NoTime THEN "faulted"
                         ELSE IF now - b.last_failure_time >= recovery_timeout
                              THEN "can_execute_trial"
                              ELSE "idle", <<>>)
              /\ UNCHANGED ruuvi_cloud_circuit_breaker
           \/ /\ at = "can_execute_trial"
              /\ ruuvi_cloud_circuit_breaker' = [b EXCEPT !.state = "HALF_OPEN"]
              /\ goto(t, "permitted", <<>>)
           \/ /\ at = "can_execute_half_open"
              /\ goto(t, IF b.state = "HALF_OPEN" THEN "permitted" ELSE "idle", <<>>)
              /\ UNCHANGED ruuvi_cloud_circuit_breaker
    /\ UNCHANGED <<now, request_vars, store_vars, config_vars, admin_vars, retrieve_vars>>

\* handle_ruuvi_cloud_forwarding, line 503: a permitted request's call succeeded
CallRecordSuccess(t) ==
    /\ threads[t].pc \in {"permitted", "retrying"}
    /\ goto(t, "record_success_count", <<>>)
    /\ UNCHANGED <<now, ruuvi_cloud_circuit_breaker, request_vars, store_vars, config_vars, admin_vars, retrieve_vars>>

\* record_success, lines 102-106, one statement at a time
RecordSuccessStep(t) ==
    /\ LET b == ruuvi_cloud_circuit_breaker
           at == threads[t].pc
       IN  \/ /\ at = "record_success_count"
              /\ ruuvi_cloud_circuit_breaker' = [b EXCEPT !.failure_count = 0]
              /\ goto(t, "record_success_state", <<>>)
           \/ /\ at = "record_success_state"
              /\ ruuvi_cloud_circuit_breaker' = [b EXCEPT !.state = "CLOSED"]
              /\ goto(t, "record_success_time", <<>>)
           \/ /\ at = "record_success_time"
              /\ ruuvi_cloud_circuit_breaker' = [b EXCEPT !.last_failure_time = NoTime]
              /\ goto(t, "idle", <<>>)
    /\ UNCHANGED <<now, request_vars, store_vars, config_vars, admin_vars, retrieve_vars>>

\* handle_ruuvi_cloud_forwarding, lines 528 and 562: a permitted request's
\* call failed for good, or raised
CallRecordFailure(t) ==
    /\ threads[t].pc \in {"permitted", "retrying"}
    /\ goto(t, "record_failure_load", <<>>)
    /\ UNCHANGED <<now, ruuvi_cloud_circuit_breaker, request_vars, store_vars, config_vars, admin_vars, retrieve_vars>>

\* record_failure, lines 108-116, one statement at a time; the += of line
\* 110 reads the attribute, adds, and writes it back
RecordFailureStep(t) ==
    /\ LET b == ruuvi_cloud_circuit_breaker
           at == threads[t].pc
       IN  \/ /\ at = "record_failure_load"
              /\ b.failure_count < MaxFailureCount
              /\ goto(t, "record_failure_add", <<b.failure_count>>)
              /\ UNCHANGED ruuvi_cloud_circuit_breaker
           \/ /\ at = "record_failure_add"
              /\ ruuvi_cloud_circuit_breaker' =
                     [b EXCEPT !.failure_count = threads[t].local[1] + 1]
              /\ goto(t, "record_failure_time", <<>>)
           \/ /\ at = "record_failure_time"
              /\ ruuvi_cloud_circuit_breaker' = [b EXCEPT !.last_failure_time = now]
              /\ goto(t, "record_failure_threshold", <<>>)
           \/ /\ at = "record_failure_threshold"
              /\ goto(t, IF b.failure_count >= failure_threshold
                         THEN "record_failure_open"
                         ELSE "record_failure_half_open", <<>>)
              /\ UNCHANGED ruuvi_cloud_circuit_breaker
           \/ /\ at = "record_failure_half_open"
              /\ goto(t, IF b.state = "HALF_OPEN" THEN "record_failure_open"
                         ELSE "retrying", <<>>)
              /\ UNCHANGED ruuvi_cloud_circuit_breaker
           \/ /\ at = "record_failure_open"
              /\ ruuvi_cloud_circuit_breaker' = [b EXCEPT !.state = "OPEN"]
              /\ goto(t, "retrying", <<>>)
    /\ UNCHANGED <<now, request_vars, store_vars, config_vars, admin_vars, retrieve_vars>>

\* handle_ruuvi_cloud_forwarding returns: after its last recorded failure,
\* or through the handler of line 590 when can_execute raised
ForwardingEnds(t) ==
    /\ threads[t].pc \in {"retrying", "faulted"}
    /\ goto(t, "idle", <<>>)
    /\ UNCHANGED <<now, ruuvi_cloud_circuit_breaker, request_vars, store_vars, config_vars, admin_vars, retrieve_vars>>

NextBreakerThreads ==
    \/ \E d \in TickChoices : Tick(d)
    \/ \E t \in Threads : CallCanExecute(t)
    \/ \E t \in Threads : CanExecuteStep(t)
    \/ \E t \in Threads : CallRecordSuccess(t)
    \/ \E t \in Threads : RecordSuccessStep(t)
    \/ \E t \in Threads : CallRecordFailure(t)
    \/ \E t \in Threads : RecordFailureStep(t)
    \/ \E t \in Threads : ForwardingEnds(t)

SpecBreakerThreads == Init /\ [][NextBreakerThreads]_vars

\* C37: under every interleaving of the statements of record_success,
\* record_failure and can_execute of concurrent requests, the breaker is
\* never OPEN with no failure instant recorded, and no can_execute faults
\* on a missing failure instant.
C37_OpenHasFailureInstant ==
    /\ ruuvi_cloud_circuit_breaker.state = "OPEN"
         => ruuvi_cloud_circuit_breaker.last_failure_time # NoTime
    /\ \A t \in Threads : threads[t].pc # "faulted"

\* a can_execute has faulted on the missing instant of an OPEN breaker
C37_CanExecuteFaulted ==
    /\ ruuvi_cloud_circuit_breaker.state = "OPEN"
    /\ ruuvi_cloud_circuit_breaker.last_failure_time = NoTime
    /\ \E t \in Threads : threads[t].pc = "faulted"


(***************************************************************************)
(* A get_config and a set_config of two threads on one                     *)
(* ConfigurationManager: the cache check, the table call and the cache     *)
(* update of each, one at a time, nothing guarding them                    *)
(* (config_manager.py holds no lock).                                      *)
(***************************************************************************)
\* the thread that reads settings and the thread that writes them
Reader == 1
Writer == 2

\* the values the writer calls set_config with, by key: each is read back
\* from the table as it was written, or refused by _validate_config
WrittenValues(key) ==
    CASE key = "data_retention_days" -> {PyInt(1), PyInt(30), PyInt(0)}
      [] OTHER -> {PyStr("garden"), PyList("[1]")}

\* get_config(key) is called
CallGetConfig(key) ==
    /\ threads[Reader].pc = "idle"
    /\ goto(Reader, "get_config_cached", <<PyStr(key)>>)
    /\ UNCHANGED <<now, proxy_vars, store_vars, config_vars, admin_vars, retrieve_vars>>

\* get_config, lines 55-75, one statement at a time: the cache check of
\* line 57, table.get_item of line 61, _update_cache of line 65
GetConfigStatement(fault) ==
    /\ LET at == threads[Reader].pc
           key == threads[Reader].local[1].s
       IN  \/ /\ at = "get_config_cached"
              /\ fault = "none"
              /\ goto(Reader, IF _is_cached_and_valid(_cache, key, now) THEN "idle"
                              ELSE "get_config_get_item", <<PyStr(key)>>)
              /\ UNCHANGED _cache
           \/ /\ at = "get_config_get_item"
              /\ IF fault = "none" /\ config_table[key] # NoItem
                 THEN goto(Reader, "get_config_update_cache",
                           <<PyStr(key), _deserialize_value(config_table[key].config_value)>>)
                 ELSE goto(Reader, "idle", <<>>)
              /\ UNCHANGED _cache
           \/ /\ at = "get_config_update_cache"
              /\ fault = "none"
              /\ _cache' = _update_cache(_cache, key, threads[Reader].local[2], now)
              /\ goto(Reader, "idle", <<>>)
    /\ UNCHANGED <<now, proxy_vars, store_vars, config_table, returned, admin_vars, retrieve_vars>>

\* set_config(key, value) is called
CallSetConfig(key, value) ==
    /\ threads[Writer].pc = "idle"
    /\ goto(Writer, "set_config_validate", <<PyStr(key), value>>)
    /\ UNCHANGED <<now, proxy_vars, store_vars, config_vars, admin_vars, retrieve_vars>>

\* set_config, lines 95-122, one statement at a time: _validate_config of
\* line 97, table.put_item of line 105, _update_cache of line 115
SetConfigStatement(fault) ==
    /\ LET at == threads[Writer].pc
           key == threads[Writer].local[1].s
           value == threads[Writer].local[2]
       IN  \/ /\ at = "set_config_validate"
              /\ fault = "none"
              /\ goto(Writer, IF _validate_config(key, value) THEN "set_config_put_item"
                              ELSE "idle", threads[Writer].local)
              /\ UNCHANGED <<config_table, _cache>>
           \/ /\ at = "set_config_put_item"
              /\ IF fault = "none"
                 THEN /\ config_table' =
                            [config_table EXCEPT ![key] =
                                [config_value |-> _serialize_value(value),
                                 last_updated |-> now, updated_by |-> "system"]]
                      /\ goto(Writer, "set_config_update_cache", threads[Writer].local)
                 ELSE /\ goto(Writer, "idle", <<>>)
                      /\ UNCHANGED config_table
              /\ UNCHANGED _cache
           \/ /\ at = "set_config_update_cache"
              /\ fault = "none"
              /\ _cache' = _update_cache(_cache, key, value, now)
              /\ goto(Writer, "idle", <<>>)
              /\ UNCHANGED config_table
    /\ UNCHANGED <<now, proxy_vars, store_vars, returned, admin_vars, retrieve_vars>>

NextConfigThreads ==
    \/ \E d \in ConfigTickChoices : ConfigTick(d)
    \/ \E key \in ConfigKeys : CallGetConfig(key)
    \/ \E fault \in TableFaults : GetConfigStatement(fault)
    \/ \E key \in ConfigKeys : \E value \in WrittenValues(key) : CallSetConfig(key, value)
    \/ \E fault \in TableFaults : SetConfigStatement(fault)

SpecConfigThreads == Init /\ [][NextConfigThreads]_vars


\* no call of either thread is under way
BothReturned == \A t \in Threads : threads[t].pc = "idle"

\* what a get_config(key) called now would return
LaterGetConfig(key) == get_config(_cache, config_table, key, PyNone, "none", now).value

\* the value the last successful set_config(key) wrote
ValueInStore(key) == _deserialize_value(config_table[key].config_value)

\* C38: once a get_config read-through and a successful set_config of the
\* same key that interleaved have both returned, the cache holds no value
\* older than the one in the table: a get_config within the TTL returns the
\* value set_config wrote.
C38_CacheNotOlderThanStore ==
    \A key \in ConfigKeys :
        (BothReturned /\ config_table[key] # NoItem)
            => LaterGetConfig(key) = ValueInStore(key)

\* both calls have returned, the table holds the value set_config wrote and
\* the cache, within its TTL, an older one
C38_StaleValueCached ==
    \E key \in ConfigKeys :
        /\ BothReturned
        /\ config_table[key] # NoItem
        /\ _is_cached_and_valid(_cache, key, now)
        /\ _cache[key].value # ValueInStore(key)


(***************************************************************************)
(* An outage of the upstream that ends: forwarding is enabled for every    *)
(* request, upstream calls fail only before the instant Recovered, time    *)
(* passes and requests keep arriving.                                      *)
(***************************************************************************)
\* the instant from which every upstream call succeeds
Recovered == 1

\* intervals by which the clock moves between two requests
RecoveryTicks == {1, recovery_timeout}

\* a batch that is forwarded and one that is refused
RecoveryTemplates ==
    { [gwmac |-> GoodMac, age |-> 0, tags |-> (Tag0 :> GoodEntry)],
      [gwmac |-> BadMac, age |-> 0, tags |-> (Tag0 :> GoodEntry)] }

\* forwarding_enabled is read as true, the endpoint is the default one
ForwardingEnabled ==
    [fault |-> FALSE, forwarding_enabled |-> TRUE, ruuvi_cloud_endpoint |-> DefaultEndpoint]

\* what the upstream answers: an error during the outage, success after it
RecoveryOutcomes ==
    { o \in ClientOutcomes :
        \/ o.type = "success" /\ o.body = Dict("success", "inserted", Absent)
        \/ o.type = "failure" }

\* one pass of the retry loop while the outage lasts or after it
RecoveryAttempt(o) ==
    /\ o.type = "failure" => now < Recovered
    /\ Attempt(o)

\* the table takes every write
StoreWorks ==
    [access |-> "ok", config |-> "ok", ttl_days |-> default_retention_days, write |-> "ok"]

\* a batch arrives that passes validation
ReceiveValid == \E tpl \in RecoveryTemplates : Receive(tpl) /\ pc' = "forwarding"

NextRecovery ==
    \/ \E d \in RecoveryTicks : Tick(d)
    \/ \E tpl \in RecoveryTemplates : Receive(tpl)
    \/ ForwardingStart(ForwardingEnabled)
    \/ \E o \in RecoveryOutcomes : RecoveryAttempt(o)
    \/ Store(StoreWorks)
    \/ Respond
    \/ Return

\* the clock goes on, valid batches keep arriving, and an invocation that
\* has begun runs to its end
FairRecovery ==
    /\ SF_vars(\E d \in RecoveryTicks : Tick(d))
    /\ SF_vars(ReceiveValid)
    /\ WF_vars(ForwardingStart(ForwardingEnabled))
    /\ WF_vars(\E o \in RecoveryOutcomes : RecoveryAttempt(o))
    /\ WF_vars(Store(StoreWorks))
    /\ WF_vars(Respond)
    /\ WF_vars(Return)

SpecRecovery == Init /\ [][NextRecovery]_vars /\ FairRecovery

\* C39: with forwarding enabled, requests arriving and every upstream call
\* succeeding from some instant on, a breaker that is OPEN or HALF_OPEN
\* comes back to CLOSED with failure count 0 by a forwarded request whose
\* upstream call succeeded; it does not stay OPEN or HALF_OPEN forever.
C39_OpenBreakerCloses ==
    (ruuvi_cloud_circuit_breaker.state \in {"OPEN", "HALF_OPEN"})
        ~> (/\ ruuvi_cloud_circuit_breaker.state = "CLOSED"
            /\ ruuvi_cloud_circuit_breaker.failure_count = 0
            /\ forwarding.success
            /\ forwarding.was_forwarded
            /\ audit.upstream_ok)

\* the breaker opened during the outage and the trial request after the
\* recovery window closed it again
C39_ClosedAfterOutage ==
    /\ failure_streak = 0
    /\ failed_at = NoTime
    /\ now >= recovery_timeout
    /\ audit.breaker = "trial"
    /\ audit.recorded_successes = 1
    /\ forwarding.success
    /\ ruuvi_cloud_circuit_breaker = CircuitBreaker

====
